---- MODULE Spec2Model ----
(***************************************************************************)
(* A model of the WindFlow KeyBy emitter (keyby_emitter.hpp) bundled with  *)
(* SPBench.  One emitter object is modelled: its fields are the variables, *)
(* each public method is one action, and every private method is an        *)
(* operator from emitter states to emitter states, composed exactly as the *)
(* C++ methods call each other.                                            *)
(***************************************************************************)
EXTENDS Integers, Sequences, FiniteSets, Bags, TLC

(***************************************************************************)
(* Bounds of the model.                                                    *)
(***************************************************************************)
num_dests == 2
MaxWm == 1
MaxOps == 2
MaxBatch == 2
stream_len == 2
queue_capacity == 1
MaxThreads == 5
MaxPar == 2
MaxWinLen == 2
MaxSlide == 2
MaxLateness == 1
MaxTs == 3
MaxTuples == 4
MaxTimed == 3
MaxCalls == 3
MaxQuantum == 2

(***************************************************************************)
(* Constants of the tests.                                                 *)
(***************************************************************************)
FlatMap_Functor_pushes == 3

(***************************************************************************)
(* WF_DEFAULT_WM_AMOUNT and WF_DEFAULT_WM_INTERVAL_USEC of basic.hpp,      *)
(* scaled down (TLA+ reserves the prefix WF_).                             *)
(***************************************************************************)
DEFAULT_WM_AMOUNT == 2
DEFAULT_WM_INTERVAL_USEC == 1

Dests == 0 .. (num_dests - 1)
\* one key more than destinations: two keys share a destination
Keys == 0 .. num_dests
Watermarks == 0 .. MaxWm
Execution_Mode_t == {"DEFAULT", "DETERMINISTIC", "PROBABILISTIC"}

VARIABLES
    size,             \* batch size: 0 = per-tuple, > 0 = batched
    useTreeMode,      \* true if the emitter works in tree-based mode
    execution_mode,   \* execution mode of the emitter
    output_queue,     \* pairs (message, destination) buffered in tree mode
    batches_output,   \* one pointer to an open batch per destination
    since_punct,      \* current_time_usecs() - last_time_punct, saturated at the interval
    delivered,        \* outputs delivered to each destination during the sample
    received_inputs,  \* number of inputs received by the emitter
    last_sent_wms,    \* last watermark sent to each destination
    sent,             \* history of the messages that left the emitter, with destination
    emitted,          \* history of the tuples handed to emit / emit_inplace
    in_wm,            \* last watermark handed to the emitter by its replica
    allocated,        \* number of envelopes allocated so far (next address)
    n_punct,          \* number of calls of propagate_punctuation
    assert_ok,        \* false as soon as one of the sanity assertions has failed
    recording,        \* true: histories are kept (bounded run); false: endless run
    queue,            \* pointer to the recycling queue (the number of shells in it)
    phase,            \* "running", "ended" (end of stream handled) or "destroyed"
    pushed,           \* number of shells given back to the recycling queue
    popped,           \* number of shells taken from the recycling queue again
    deleted,          \* number of recycled shells deleted
    graph,            \* the PipeGraph: its operators, replicas and queues
    pipegraph,        \* the PipeGraph under assembly: MultiPipes, number of threads
    win,              \* the replicas of a window operator and their windows
    shipper,          \* the Shipper of a FlatMap replica and what it handed over
    builder,          \* a builder of an operator: its fields, the calls made
    emitters,         \* the emitter objects of the replicas of an operator
    bench             \* the sequential yahoo benchmark: its vectors and its loop

vars == <<size, useTreeMode, execution_mode, output_queue, batches_output,
          since_punct, delivered, received_inputs, last_sent_wms, sent,
          emitted, in_wm, allocated, n_punct, assert_ok, recording,
          queue, phase, pushed, popped, deleted>>

(***************************************************************************)
(* Pointers: nullptr is the empty sequence, a pointer to x is <<x>>.       *)
(***************************************************************************)
Nullptr == <<>>
Ptr(x) == <<x>>
Deref(p) == p[1]

Min(a, b) == IF a <= b THEN a ELSE b
Max(a, b) == IF a >= b THEN a ELSE b

(***************************************************************************)
(* The message substrate (single_t.hpp, batch_cpu_t.hpp).  An envelope is  *)
(* a Single_t (one slot) or a Batch_CPU_t (up to size slots); each slot    *)
(* keeps its tuple with its timestamp and watermark; watermarks is the     *)
(* per-destination watermark vector and delete_counter the reference count;*)
(* recycler is the recycling queue the shell goes back to: "queue", the one *)
(* of this emitter, or "upstream", the one of the emitter that allocated it.*)
(***************************************************************************)
WmTop == MaxWm + 1
EmptyTuple == [key |-> 0, value |-> 0]
Slot(t, ts, wm) == [tuple |-> t, timestamp |-> ts, watermark |-> wm]

NewAddress(e) == IF recording THEN e.allocated + 1 ELSE 0

allocateSingle_t(t, id, ts, wm, addr) ==
    [isBatch |-> FALSE, identifier |-> id, slots |-> <<Slot(t, ts, wm)>>,
     watermarks |-> <<wm>>, isPunctuation |-> FALSE, delete_counter |-> 1,
     addr |-> addr, recycler |-> "queue"]

allocateBatch_CPU_t(addr) ==
    [isBatch |-> TRUE, identifier |-> 0, slots |-> <<>>,
     watermarks |-> <<WmTop>>, isPunctuation |-> FALSE, delete_counter |-> 1,
     addr |-> addr, recycler |-> "queue"]

addTuple(b, t, ts, wm) ==
    [b EXCEPT !.slots = Append(@, Slot(t, ts, wm)),
              !.watermarks[1] = Min(@, wm)]

getSize(b) == Len(b.slots)
getWatermark(m) == m.watermarks[1]

\* delete_counter.fetch_add(n)
fetch_add(m, n) == [m EXCEPT !.delete_counter = @ + n]

\* (punc->fields|watermarks).insert(end, n, first watermark)
insertWatermarks(m, n) ==
    [m EXCEPT !.watermarks = @ \o [i \in 1 .. n |-> m.watermarks[1]]]

setPunctuation(m) == [m EXCEPT !.isPunctuation = TRUE]

(***************************************************************************)
(* key_extr and std::hash on integer keys (the identity).                  *)
(***************************************************************************)
key_extr(t) == t.key
hash(k) == k
\* Mutant: the hash is taken of the whole tuple instead of its key.
dest_of_tuple_hash(t) == (hash(key_extr(t)) + t.value) % num_dests

dest_of(t) == hash(key_extr(t)) % num_dests

(***************************************************************************)
(* The emitter state as one record, so that the private methods compose.   *)
(***************************************************************************)
Self ==
    [useTreeMode |-> useTreeMode,
     output_queue |-> output_queue, batches_output |-> batches_output,
     since_punct |-> since_punct, delivered |-> delivered,
     received_inputs |-> received_inputs, last_sent_wms |-> last_sent_wms,
     sent |-> sent, allocated |-> allocated, assert_ok |-> assert_ok,
     queue |-> queue, popped |-> popped, deleted |-> deleted]

Store(e) ==
    /\ output_queue' = e.output_queue
    /\ batches_output' = e.batches_output
    /\ since_punct' = e.since_punct
    /\ delivered' = e.delivered
    /\ received_inputs' = e.received_inputs
    /\ last_sent_wms' = e.last_sent_wms
    /\ sent' = e.sent
    /\ allocated' = e.allocated
    /\ assert_ok' = e.assert_ok
    /\ queue' = e.queue
    /\ popped' = e.popped
    /\ deleted' = e.deleted

\* assert(c)
sanity(e, c) == [e EXCEPT !.assert_ok = @ /\ c]

\* queue->pop(): the shell at the head of the recycling queue, if there is one
pop(e) ==
    IF e.queue # Nullptr /\ Deref(e.queue) > 0
    THEN [e EXCEPT !.queue = Ptr(Deref(@) - 1), !.popped = @ + 1]
    ELSE e

\* an envelope allocated by the upstream emitter has been handed over
upstream(e) == [e EXCEPT !.allocated = NewAddress(e)]

\* a new envelope has been taken from the allocator, which first drains the
\* recycling queue
alloc(e) == [pop(e) EXCEPT !.allocated = NewAddress(e)]

\* if (!useTreeMode) _node->ff_send_out_to(m, d); else output_queue.push_back((m, d));
\* Mutant: in tree mode the message is put at the front of the output queue.
send_or_buffer_front(e, m, d) ==
    IF ~recording THEN e
    ELSE IF ~e.useTreeMode
         THEN [e EXCEPT !.sent = Append(@, [msg |-> m, dest |-> d])]
         ELSE [e EXCEPT !.output_queue = <<[msg |-> m, dest |-> d]>> \o @]

send_or_buffer(e, m, d) ==
    IF ~recording THEN e
    ELSE IF ~e.useTreeMode
         THEN [e EXCEPT !.sent = Append(@, [msg |-> m, dest |-> d])]
         ELSE [e EXCEPT !.output_queue = Append(@, [msg |-> m, dest |-> d])]

\* assert(last_sent_wms[d] <= wm); last_sent_wms[d] = wm;
save_last_wm(e, d, wm) ==
    [sanity(e, e.last_sent_wms[d] <= wm) EXCEPT !.last_sent_wms[d] = wm]

\* delivered[d]++
count_delivery(e, d) ==
    [e EXCEPT !.delivered[d] = IF recording THEN @ + 1 ELSE Min(@ + 1, 1)]

(***************************************************************************)
(* flush: every open batch is sent to its destination.                     *)
(***************************************************************************)
\* Mutant: flush drops the open batch instead of sending it.
flush_dest_drop(e, i) ==
    IF e.batches_output[i] # Nullptr
    THEN [count_delivery(e, i) EXCEPT !.batches_output[i] = Nullptr]
    ELSE e

flush_dest(e, i) ==
    IF e.batches_output[i] # Nullptr
    THEN LET b == Deref(e.batches_output[i])
             e1 == sanity(e, getSize(b) > 0)
             e2 == save_last_wm(e1, i, getWatermark(b))
             e3 == count_delivery(send_or_buffer(e2, b, i), i)
         IN [e3 EXCEPT !.batches_output[i] = Nullptr]
    ELSE e

\* Mutant: the loop of flush stops one destination short.
RECURSIVE flush_loop_one_short(_, _)
flush_loop_one_short(e, i) ==
    IF i >= num_dests - 1 THEN e
    ELSE flush_loop_one_short(flush_dest(e, i), i + 1)

RECURSIVE flush_loop(_, _)
flush_loop(e, i) ==
    IF i = num_dests THEN e ELSE flush_loop(flush_dest(e, i), i + 1)

flush(e) == IF size > 0 THEN flush_loop(e, 0) ELSE e

(***************************************************************************)
(* The punctuation shared by the destinations idxs: one envelope, with a   *)
(* reference count of Len(idxs), sent to each of them.                     *)
(***************************************************************************)
\* Mutant: the reference count is that of a broadcast to every destination.
new_punctuation_all_refs(e, wm, n_refs) ==
    LET p0 == IF size = 0
              THEN allocateSingle_t(EmptyTuple, 0, 0, wm, NewAddress(e))
              ELSE addTuple(allocateBatch_CPU_t(NewAddress(e)), EmptyTuple, 0, wm)
        p1 == fetch_add(p0, num_dests - 1)
        p2 == insertWatermarks(p1, num_dests - 1)
    IN setPunctuation(p2)

\* Mutant: the envelope is not marked as a punctuation.
new_punctuation_unmarked(e, wm, n_refs) ==
    LET p0 == IF size = 0
              THEN allocateSingle_t(EmptyTuple, 0, 0, wm, NewAddress(e))
              ELSE addTuple(allocateBatch_CPU_t(NewAddress(e)), EmptyTuple, 0, wm)
        p1 == fetch_add(p0, n_refs - 1)
    IN insertWatermarks(p1, num_dests - 1)

new_punctuation(e, wm, n_refs) ==
    LET p0 == IF size = 0
              THEN allocateSingle_t(EmptyTuple, 0, 0, wm, NewAddress(e))
              ELSE addTuple(allocateBatch_CPU_t(NewAddress(e)), EmptyTuple, 0, wm)
        p1 == fetch_add(p0, n_refs - 1)
        p2 == insertWatermarks(p1, num_dests - 1)
    IN setPunctuation(p2)

send_punctuation(e, punc, id, wm) ==
    send_or_buffer(save_last_wm(e, id, wm), punc, id)

RECURSIVE punctuation_loop(_, _, _, _)
punctuation_loop(e, punc, idxs, wm) ==
    IF idxs = <<>> THEN e
    ELSE punctuation_loop(send_punctuation(e, punc, Head(idxs), wm),
                          punc, Tail(idxs), wm)

(***************************************************************************)
(* generate_punctuation: at the end of a sample, the destinations with no  *)
(* delivery get their open batch (if any) and then a punctuation.          *)
(***************************************************************************)
\* Mutant: a quiet destination gets its punctuation without its open batch
\* being sent first.
select_dest_no_flush(r, i) ==
    LET e == r.e
    IN IF e.delivered[i] = 0
       THEN [e |-> e, idxs |-> Append(r.idxs, i)]
       ELSE [e |-> [e EXCEPT !.delivered[i] = 0], idxs |-> r.idxs]

\* Mutant: a destination with one delivery still counts as quiet.
select_dest_off_by_one(r, i) ==
    LET e == r.e
    IN IF e.delivered[i] <= 1
       THEN IF size > 0 /\ e.batches_output[i] # Nullptr
            THEN LET b == Deref(e.batches_output[i])
                     e3 == send_or_buffer(save_last_wm(e, i, getWatermark(b)), b, i)
                 IN [e |-> [e3 EXCEPT !.batches_output[i] = Nullptr,
                                      !.delivered[i] = 0],
                     idxs |-> Append(r.idxs, i)]
            ELSE [e |-> [e EXCEPT !.delivered[i] = 0], idxs |-> Append(r.idxs, i)]
       ELSE [e |-> [e EXCEPT !.delivered[i] = 0], idxs |-> r.idxs]

select_dest(r, i) ==
    LET e == r.e
    IN IF e.delivered[i] = 0
       THEN IF size = 0
            THEN [e |-> e, idxs |-> Append(r.idxs, i)]
            ELSE IF e.batches_output[i] # Nullptr
                 THEN LET b == Deref(e.batches_output[i])
                          e1 == sanity(e, getSize(b) > 0)
                          e2 == save_last_wm(e1, i, getWatermark(b))
                          e3 == send_or_buffer(e2, b, i)
                      IN [e |-> [e3 EXCEPT !.batches_output[i] = Nullptr],
                          idxs |-> Append(r.idxs, i)]
                 ELSE [e |-> e, idxs |-> Append(r.idxs, i)]
       ELSE [e |-> [e EXCEPT !.delivered[i] = 0], idxs |-> r.idxs]

RECURSIVE select_loop(_, _)
select_loop(r, i) ==
    IF i = num_dests THEN r ELSE select_loop(select_dest(r, i), i + 1)

sample_ended(e) == e.since_punct >= DEFAULT_WM_INTERVAL_USEC

\* Mutant: before the end of the sample the delivery counters are reset.
generate_punctuation_eager_reset(e, wm) ==
    IF sample_ended(e)
    THEN LET r == select_loop([e |-> e, idxs |-> <<>>], 0)
         IN IF Len(r.idxs) = 0 THEN r.e
            ELSE LET punc == new_punctuation(r.e, wm, Len(r.idxs))
                     e1 == punctuation_loop(alloc(r.e), punc, r.idxs, wm)
                 IN [e1 EXCEPT !.since_punct = 0]
    ELSE [e EXCEPT !.delivered = [d \in Dests |-> 0]]

generate_punctuation(e, wm) ==
    IF sample_ended(e)
    THEN LET r == select_loop([e |-> e, idxs |-> <<>>], 0)
         IN IF Len(r.idxs) = 0 THEN r.e
            ELSE LET punc == new_punctuation(r.e, wm, Len(r.idxs))
                     e1 == punctuation_loop(alloc(r.e), punc, r.idxs, wm)
                 IN [e1 EXCEPT !.since_punct = 0]
    ELSE e

\* Mutant: the test of the execution mode is inverted.
check_punctuation_wrong_mode(e, wm) ==
    IF execution_mode # "DEFAULT" /\ e.received_inputs % DEFAULT_WM_AMOUNT = 0
    THEN generate_punctuation(e, wm)
    ELSE e

\* Mutant: punctuations are generated in every execution mode.
check_punctuation_any_mode(e, wm) ==
    IF e.received_inputs % DEFAULT_WM_AMOUNT = 0
    THEN generate_punctuation(e, wm)
    ELSE e

check_punctuation(e, wm) ==
    IF execution_mode = "DEFAULT" /\ e.received_inputs % DEFAULT_WM_AMOUNT = 0
    THEN generate_punctuation(e, wm)
    ELSE e

(***************************************************************************)
(* routing (per-tuple) and routing_batched.                                *)
(***************************************************************************)
routing(e, output) ==
    LET e1 == check_punctuation(e, getWatermark(output))
        dest_id == dest_of(output.slots[1].tuple)
        e2 == save_last_wm(e1, dest_id, getWatermark(output))
    IN count_delivery(send_or_buffer(e2, output, dest_id), dest_id)

\* Mutant: the batch is sent one tuple too late.
send_if_complete_late(e, dest_id) ==
    LET b == Deref(e.batches_output[dest_id])
    IN IF getSize(b) > size
       THEN LET e1 == save_last_wm(e, dest_id, getWatermark(b))
                e2 == count_delivery(send_or_buffer(e1, b, dest_id), dest_id)
            IN [e2 EXCEPT !.batches_output[dest_id] = Nullptr]
       ELSE e

\* Mutant: the complete batch is sent and stays open, so that it is sent again.
send_if_complete_keep(e, dest_id) ==
    LET b == Deref(e.batches_output[dest_id])
    IN IF getSize(b) = size
       THEN LET e1 == save_last_wm(e, dest_id, getWatermark(b))
            IN count_delivery(send_or_buffer(e1, b, dest_id), dest_id)
       ELSE e

send_if_complete(e, dest_id) ==
    LET b == Deref(e.batches_output[dest_id])
    IN IF getSize(b) = size
       THEN LET e1 == save_last_wm(e, dest_id, getWatermark(b))
                e2 == count_delivery(send_or_buffer(e1, b, dest_id), dest_id)
            IN [e2 EXCEPT !.batches_output[dest_id] = Nullptr]
       ELSE e

\* Mutant: the batch of the destination is allocated anew for every tuple.
routing_batched_realloc(e, t, ts, wm) ==
    LET e1 == check_punctuation(e, wm)
        dest_id == dest_of(t)
        e2 == [alloc(e1) EXCEPT !.batches_output[dest_id] =
                                    Ptr(allocateBatch_CPU_t(NewAddress(e1)))]
        e3 == [e2 EXCEPT !.batches_output[dest_id] =
                             Ptr(addTuple(Deref(@), t, ts, wm))]
    IN send_if_complete(e3, dest_id)

routing_batched(e, t, ts, wm) ==
    LET e1 == check_punctuation(e, wm)
        dest_id == dest_of(t)
        e2 == IF e1.batches_output[dest_id] = Nullptr
              THEN [alloc(e1) EXCEPT !.batches_output[dest_id] =
                                         Ptr(allocateBatch_CPU_t(NewAddress(e1)))]
              ELSE e1
        e3 == [e2 EXCEPT !.batches_output[dest_id] =
                             Ptr(addTuple(Deref(@), t, ts, wm))]
    IN send_if_complete(e3, dest_id)

(***************************************************************************)
(* emit, emit_inplace and propagate_punctuation on an emitter state.       *)
(***************************************************************************)
count_input(e) ==
    [e EXCEPT !.received_inputs =
                  IF recording THEN @ + 1 ELSE (@ + 1) % DEFAULT_WM_AMOUNT]

emit(e, t, id, ts, wm) ==
    LET e1 == count_input(e)
    IN IF size = 0
       THEN routing(alloc(e1), allocateSingle_t(t, id, ts, wm, NewAddress(e1)))
       ELSE routing_batched(e1, t, ts, wm)

emit_inplace(e, output) ==
    LET e1 == count_input(e)
    IN IF size = 0
       THEN routing(e1, output)
       ELSE routing_batched(e1, output.slots[1].tuple,
                            output.slots[1].timestamp, getWatermark(output))

RECURSIVE AllDests(_)
AllDests(i) == IF i = num_dests THEN <<>> ELSE <<i>> \o AllDests(i + 1)

\* Mutant: propagate_punctuation without the initial flush of the open batches.
propagate_punctuation_no_flush(e, wm) ==
    LET punc == new_punctuation(e, wm, num_dests)
    IN punctuation_loop(alloc(e), punc, AllDests(0), wm)

propagate_punctuation(e, wm) ==
    LET e1 == flush(e)
        punc == new_punctuation(e1, wm, num_dests)
    IN punctuation_loop(alloc(e1), punc, AllDests(0), wm)

(***************************************************************************)
(* The state after construction (constructor, then setTreeMode at graph    *)
(* assembly).                                                              *)
(***************************************************************************)
Constructed ==
    /\ size \in 0 .. MaxBatch
    /\ useTreeMode \in BOOLEAN
    /\ execution_mode \in Execution_Mode_t
    /\ output_queue = <<>>
    /\ batches_output = [d \in Dests |-> Nullptr]
    /\ since_punct = 0
    /\ delivered = [d \in Dests |-> 0]
    /\ received_inputs = 0
    /\ last_sent_wms = [d \in Dests |-> 0]
    /\ sent = <<>>
    /\ emitted = <<>>
    /\ in_wm = 0
    /\ allocated = 0
    /\ n_punct = 0
    /\ assert_ok = TRUE
    /\ queue = Ptr(0)
    /\ phase = "running"
    /\ pushed = 0
    /\ popped = 0
    /\ deleted = 0

\* no PipeGraph is around the emitter
NotBuilt == [run_pc |-> "none"]

Init ==
    /\ Constructed /\ recording = TRUE
    /\ graph = NotBuilt /\ pipegraph = NotBuilt /\ win = NotBuilt
    /\ shipper = NotBuilt /\ builder = NotBuilt
    /\ emitters = NotBuilt /\ bench = NotBuilt

InitLive ==
    /\ Constructed /\ recording = FALSE
    /\ graph = NotBuilt /\ pipegraph = NotBuilt /\ win = NotBuilt
    /\ shipper = NotBuilt /\ builder = NotBuilt
    /\ emitters = NotBuilt /\ bench = NotBuilt

(***************************************************************************)
(* The actions: one per public method, plus the passing of wall-clock time.*)
(* The replica hands watermarks in non-decreasing order (its current       *)
(* minimum input watermark).                                               *)
(***************************************************************************)
NextValue == IF recording THEN received_inputs + 1 ELSE 1

\* The event time of a tuple is ahead of the watermark it travels with; the
\* emitter never reads it, so one timestamp per (tuple, watermark) is drawn.
EventTime(value, wm) == wm + value

Input(k, wm) ==
    [tuple |-> [key |-> k, value |-> NextValue], identifier |-> NextValue,
     timestamp |-> EventTime(NextValue, wm), watermark |-> wm]

Receive(in) ==
    /\ phase = "running"
    /\ recording => received_inputs + n_punct < MaxOps
    /\ in.watermark >= in_wm
    /\ in_wm' = in.watermark
    /\ emitted' = IF recording THEN Append(emitted, in) ELSE emitted
    /\ UNCHANGED <<size, useTreeMode, execution_mode, n_punct, recording,
                   phase, pushed>>
    /\ UNCHANGED <<graph, pipegraph, win, shipper, builder, emitters, bench>>

Emit(k, wm) ==
    LET in == Input(k, wm)
    IN /\ Receive(in)
       /\ Store(emit(Self, in.tuple, in.identifier, in.timestamp, wm))

EmitInplace(k, wm) ==
    LET in == Input(k, wm)
        output == [allocateSingle_t(in.tuple, in.identifier, in.timestamp, wm,
                                    NewAddress(Self))
                      EXCEPT !.recycler = "upstream"]
    IN /\ Receive(in)
       /\ Store(emit_inplace(upstream(Self), output))

PropagatePunctuation(wm) ==
    /\ phase = "running"
    /\ recording => received_inputs + n_punct < MaxOps
    /\ wm >= in_wm
    /\ in_wm' = wm
    /\ n_punct' = IF recording THEN n_punct + 1 ELSE n_punct
    /\ Store(propagate_punctuation(Self, wm))
    /\ UNCHANGED <<size, useTreeMode, execution_mode, emitted, recording,
                   phase, pushed>>
    /\ UNCHANGED <<graph, pipegraph, win, shipper, builder, emitters, bench>>

Flush ==
    /\ phase = "running"
    /\ Store(flush(Self))
    /\ UNCHANGED <<size, useTreeMode, execution_mode, emitted, in_wm, n_punct,
                   recording, phase, pushed>>
    /\ UNCHANGED <<graph, pipegraph, win, shipper, builder, emitters, bench>>

Tick ==
    /\ phase = "running"
    /\ since_punct < DEFAULT_WM_INTERVAL_USEC
    /\ since_punct' = since_punct + 1
    /\ UNCHANGED <<size, useTreeMode, execution_mode, output_queue,
                   batches_output, delivered, received_inputs, last_sent_wms,
                   sent, emitted, in_wm, allocated, n_punct, assert_ok,
                   recording, queue, phase, pushed, popped, deleted>>
    /\ UNCHANGED <<graph, pipegraph, win, shipper, builder, emitters, bench>>

EmitAny == \E k \in Keys, wm \in Watermarks : Emit(k, wm)

EmitInplaceAny ==
    \E k \in Keys, wm \in Watermarks : EmitInplace(k, wm)

PropagateAny == \E wm \in Watermarks : PropagatePunctuation(wm)

Next ==
    \/ EmitAny
    \/ EmitInplaceAny
    \/ PropagateAny
    \/ Flush
    \/ Tick

Spec == Init /\ [][Next]_vars

\* A step of emit or emit_inplace: the only steps that count an input.
InputReceived == received_inputs' # received_inputs

\* The endless run: wall-clock time keeps advancing (weak fairness of Tick)
\* and the emitter keeps receiving inputs.  emit is enabled in every state of
\* the endless run, so weak fairness of emit is []<><<InputReceived>>_vars.
SpecLive ==
    /\ InitLive
    /\ [][Next]_vars
    /\ WF_vars(Tick)
    /\ []<><<InputReceived>>_vars

(***************************************************************************)
(* The end of the emitter's life.  The owner of a tree-mode emitter takes  *)
(* the buffered messages through getOutputQueue(); a receiver that is done *)
(* with an envelope gives its shell back to the recycling queue; at the    *)
(* end of the stream the owner flushes the emitter and takes what is       *)
(* buffered; the destructor then checks that nothing is pending and        *)
(* deletes the recycled shells and the recycling queue.                    *)
(***************************************************************************)
\* std::vector<std::pair<void *, size_t>> &getOutputQueue(), read and cleared
getOutputQueue(e) ==
    [e EXCEPT !.sent = @ \o e.output_queue, !.output_queue = <<>>]

TakeOutputQueue ==
    /\ phase = "running"
    /\ useTreeMode
    /\ output_queue # <<>>
    /\ Store(getOutputQueue(Self))
    /\ UNCHANGED <<size, useTreeMode, execution_mode, emitted, in_wm, n_punct,
                   recording, phase, pushed>>
    /\ UNCHANGED <<graph, pipegraph, win, shipper, builder, emitters, bench>>

\* the envelopes of this emitter's allocator that have left the emitter
Released ==
    {sent[i].msg.addr : i \in {j \in DOMAIN sent : sent[j].msg.recycler = "queue"}}

\* queue->push(shell), by the last holder of an envelope not yet given back
Recycle ==
    /\ phase # "destroyed"
    /\ pushed < Cardinality(Released)
    /\ queue' = Ptr(Deref(queue) + 1)
    /\ pushed' = pushed + 1
    /\ UNCHANGED <<size, useTreeMode, execution_mode, output_queue,
                   batches_output, since_punct, delivered, received_inputs,
                   last_sent_wms, sent, emitted, in_wm, allocated, n_punct,
                   assert_ok, recording, phase, popped, deleted>>
    /\ UNCHANGED <<graph, pipegraph, win, shipper, builder, emitters, bench>>

\* the owner's handling of the end of the stream
EndOfStream ==
    /\ phase = "running"
    /\ phase' = "ended"
    /\ Store(getOutputQueue(flush(Self)))
    /\ UNCHANGED <<size, useTreeMode, execution_mode, emitted, in_wm, n_punct,
                   recording, pushed>>
    /\ UNCHANGED <<graph, pipegraph, win, shipper, builder, emitters, bench>>

\* while (queue->pop(&del)) { delete del; }
RECURSIVE delete_recycled(_)
delete_recycled(e) ==
    IF Deref(e.queue) = 0 THEN e
    ELSE delete_recycled([e EXCEPT !.queue = Ptr(Deref(@) - 1),
                                   !.deleted = @ + 1])

\* delete queue
delete_queue(e) == [e EXCEPT !.queue = Nullptr]

\* Mutant: only the per-tuple branch deletes the recycled shells.
destructor_per_tuple_only(e) ==
    LET e1 == sanity(e, Len(e.output_queue) = 0)
        e2 == sanity(e1, \A d \in Dests : e1.batches_output[d] = Nullptr)
    IN IF size = 0
       THEN IF e2.queue # Nullptr THEN delete_queue(delete_recycled(e2)) ELSE e2
       ELSE IF e2.queue # Nullptr THEN delete_queue(e2) ELSE e2

destructor(e) ==
    LET e1 == sanity(e, Len(e.output_queue) = 0)
        e2 == sanity(e1, \A d \in Dests : e1.batches_output[d] = Nullptr)
    IN IF size = 0
       THEN IF e2.queue # Nullptr THEN delete_queue(delete_recycled(e2)) ELSE e2
       ELSE IF e2.queue # Nullptr THEN delete_queue(delete_recycled(e2)) ELSE e2

Destroy ==
    /\ phase = "ended"
    /\ phase' = "destroyed"
    /\ Store(destructor(Self))
    /\ UNCHANGED <<size, useTreeMode, execution_mode, emitted, in_wm, n_punct,
                   recording, pushed>>
    /\ UNCHANGED <<graph, pipegraph, win, shipper, builder, emitters, bench>>

NextTeardown ==
    \/ Next
    \/ TakeOutputQueue
    \/ Recycle
    \/ EndOfStream
    \/ Destroy

SpecTeardown == Init /\ [][NextTeardown]_vars

(***************************************************************************)
(* The execution of a PipeGraph.  The engine (pipegraph.hpp, multipipe.hpp *)
(* and the replicas) is described by the specification; the operators'     *)
(* functors and the shape of the graph are those of the graph tests.  The  *)
(* graph is a source split by the parity of the value into a keyed Filter  *)
(* and a Map, merged into a Sink:                                          *)
(*                                                                         *)
(*                      +--> filter (keyby) --+                            *)
(*            source ---+                     +--> sink                    *)
(*                      +--> map -------------+                            *)
(*                                                                         *)
(* Every operator runs as parallelism[op] replicas, one thread each; a     *)
(* bounded queue links each replica to each replica of the next operator.  *)
(* The variable graph is the PipeGraph object with all it owns.            *)
(***************************************************************************)
Operators == {"source", "filter", "map", "sink"}

\* dist_p(min, max) and dist_b(0, 10) of the tests, scaled down
dist_p == 1 .. 2
dist_b == {0, 2}

\* the number of keys of the stream and the divisor of the Filter
n_keys == 2
mod == 2

Upstream(op) ==
    CASE op = "source" -> {}
      [] op = "filter" -> {"source"}
      [] op = "map" -> {"source"}
      [] op = "sink" -> {"filter", "map"}

Downstream(op) == {o \in Operators : op \in Upstream(o)}

Replicas == Operators \X (0 .. 1)
Links == {l \in Replicas \X Replicas : l[1][1] \in Upstream(l[2][1])}

Active(g, r) == r[2] < g.parallelism[r[1]]
ActiveReplicas(g) == {r \in Replicas : Active(g, r)}
InLinks(g, r) == {l \in Links : l[2] = r /\ Active(g, l[1]) /\ Active(g, r)}
OutLinks(g, r) == {l \in Links : l[1] = r /\ Active(g, l[2]) /\ Active(g, r)}

\* the index of an input channel of a replica: the merged pipes in the order
\* of the merge, the replicas of a pipe in the order of their index
ChannelIndex(l) == (IF l[1][1] = "map" THEN 2 ELSE 0) + l[1][2]

(***************************************************************************)
(* Source_Positive_Functor: the stream of one source replica.  The n-th    *)
(* tuple carries the timestamp next_ts; the generator of the offsets is    *)
(* seeded alike in every thread, so every replica draws the same offsets.  *)
(***************************************************************************)
offset == 1

Stream ==
    [n \in 1 .. (stream_len * n_keys) |->
        [key |-> (n - 1) % n_keys, value |-> ((n - 1) \div n_keys) + 1]]

next_ts(n) == (n - 1) * offset

\* the watermark of the final punctuation: above every timestamp
WmInf == next_ts(stream_len * n_keys) + 1

\* the watermark the shipper holds when the n-th tuple is pushed: the one
\* set by setNextWatermark after the tuple before
SourceWatermark(g, n) ==
    IF g.generateWS /\ n > 1 THEN next_ts(n - 1) ELSE 0

(***************************************************************************)
(* The messages of the queues.                                             *)
(***************************************************************************)
RECURSIVE MinWm(_, _)
MinWm(slots, i) ==
    IF i = Len(slots) THEN slots[i].watermark
    ELSE Min(slots[i].watermark, MinWm(slots, i + 1))

DataEnvelope(slots) == [kind |-> "data", slots |-> slots, wm |-> MinWm(slots, 1)]
PunctEnvelope(wm) == [kind |-> "punct", slots |-> <<>>, wm |-> wm]
EndMarker == [kind |-> "eos", slots |-> <<>>, wm |-> 0]

(***************************************************************************)
(* The emitter of a replica: routing, batching, flush and broadcast.       *)
(***************************************************************************)
\* what a thread pushes waits in its outbox until the queue has room
enqueue(g, l, env) == [g EXCEPT !.outbox[l[1]] = Append(@, <<l, env>>)]

\* the destinations of a replica in the order the emitter visits them
RECURSIVE InOrder(_)
InOrder(ls) ==
    IF ls = {} THEN <<>>
    ELSE LET l == CHOOSE x \in ls :
                      \A y \in ls : ~ (y[2][1] = x[2][1] /\ y[2][2] < x[2][2])
         IN  <<l>> \o InOrder(ls \ {l})

\* the thread pushes until a full queue blocks it
RECURSIVE drain(_, _)
drain(g, r) ==
    IF g.outbox[r] # <<>> /\ Len(g.channels[g.outbox[r][1][1]]) < queue_capacity
    THEN drain([g EXCEPT !.outbox[r] = Tail(@),
                         !.channels[g.outbox[r][1][1]] =
                             Append(@, g.outbox[r][1][2])], r)
    ELSE g

\* keyby: the key decides; forward: same index; otherwise round robin
Route(g, r, dop, t) ==
    IF dop = "filter" THEN t.key % g.parallelism[dop]
    ELSE IF g.parallelism[r[1]] = g.parallelism[dop] THEN r[2]
    ELSE g.next_dest[r]

ship(g, r, dop, t, ts, wm) ==
    LET l == <<r, <<dop, Route(g, r, dop, t)>>>>
        g1 == [g EXCEPT !.next_dest[r] = (@ + 1) % g.parallelism[dop]]
        b == Append(g.buffers[l], Slot(t, ts, wm))
    IN  IF g.batch = 0
        THEN enqueue(g1, l, DataEnvelope(<<Slot(t, ts, wm)>>))
        ELSE IF Len(b) = g.batch
             THEN enqueue([g1 EXCEPT !.buffers[l] = <<>>], l, DataEnvelope(b))
             ELSE [g1 EXCEPT !.buffers[l] = b]

\* the open batches are dropped instead of sent
graph_flush_drop(g, r) ==
    [g EXCEPT !.buffers = [l \in Links |-> IF l[1] = r THEN <<>> ELSE @[l]]]

graph_flush(g, r) ==
    LET open == InOrder({l \in OutLinks(g, r) : g.buffers[l] # <<>>})
    IN  [g EXCEPT
            !.outbox[r] = @ \o [i \in 1 .. Len(open) |->
                                  <<open[i], DataEnvelope(g.buffers[open[i]])>>],
            !.buffers = [l \in Links |-> IF l[1] = r THEN <<>> ELSE @[l]]]

broadcast(g, r, env) ==
    LET all == InOrder(OutLinks(g, r))
    IN  [g EXCEPT !.outbox[r] = @ \o [i \in 1 .. Len(all) |-> <<all[i], env>>]]

(***************************************************************************)
(* The watermark manager of a replica: the last watermark of each input    *)
(* channel, and their minimum, the current watermark of the replica.       *)
(***************************************************************************)
RECURSIVE MinOver(_, _)
MinOver(wms, ls) ==
    IF ls = {} THEN WmInf
    ELSE LET l == CHOOSE x \in ls : TRUE
         IN  Min(wms[l], MinOver(wms, ls \ {l}))

getCurrentWatermark(g, r) == MinOver(g.wms, InLinks(g, r))

\* the minimum is taken before the watermark of the input is stored
update_wm_stale(g, r, l, wm) ==
    [g EXCEPT !.cur_wm[r] = getCurrentWatermark(g, r), !.wms[l] = wm]

update_wm(g, r, l, wm) ==
    LET g1 == [g EXCEPT !.wms[l] = wm]
    IN  [g1 EXCEPT !.cur_wm[r] = getCurrentWatermark(g1, r)]

(***************************************************************************)
(* The functors of the tests.                                              *)
(***************************************************************************)
\* the lambda of split: the index of the branch
splitting_func(t) == IF t.value % 2 = 0 THEN 0 ELSE 1
\* select(0) is chained with the Filter, select(1) with the Map
branch(b) == IF b = 0 THEN "filter" ELSE "map"

Map_Functor(t) ==
    IF t.value % 2 = 0 THEN [t EXCEPT !.value = @ + 2]
    ELSE [t EXCEPT !.value = @ + 3]

Filter_Functor_KB(t) == t.value % mod = 0

\* wm_ok records that the watermark handed to the functor and its shipper is
\* the minimum over the input channels at that moment
checked(g, r, wm) ==
    [g EXCEPT !.wm_ok = @ /\ wm = g.cur_wm[r] /\ wm = MinOver(g.wms, InLinks(g, r))]

\* Sink_Functor::operator()(optional<tuple_t> &out): the optional is a
\* sequence of at most one tuple; functor_calls keeps the calls of a replica
Sink_Functor(g, r, out) ==
    LET g1 == [g EXCEPT !.functor_calls[r] = Append(@, out # <<>>)]
    IN  IF out # <<>>
        THEN [g1 EXCEPT !.received[r] = @ + 1,
                        !.totalsum[r] = @ + out[1].value]
        ELSE [g1 EXCEPT !.global_sum = @ + g.totalsum[r]]

\* the end of the stream of a replica that does nothing for it
eosnotify_none(g, r) == g

\* the end of the stream of a replica: the Sink calls its functor with the
\* empty optional
eosnotify(g, r) ==
    IF r[1] = "sink" THEN Sink_Functor(g, r, <<>>) ELSE g

\* one input of a replica through its functor, the results to its emitter
svc(g, r, s, wm) ==
    CASE r[1] = "filter" ->
            LET g1 == [g EXCEPT !.assert_ok =
                          @ /\ (s.tuple.key % g.parallelism["filter"] = r[2])]
            IN  IF Filter_Functor_KB(s.tuple)
                THEN ship(g1, r, "sink", s.tuple, s.timestamp, wm) ELSE g1
      [] r[1] = "map" -> ship(g, r, "sink", Map_Functor(s.tuple), s.timestamp, wm)
      [] r[1] = "sink" ->
            Sink_Functor([g EXCEPT !.sink_log[r] = IF g.mode = "DETERMINISTIC"
                                                   THEN Append(@, s.tuple) ELSE @,
                                   !.sink_bag[r] = @ (+) SetToBag({s.tuple})],
                         r, <<s.tuple>>)

RECURSIVE svc_batch(_, _, _, _, _)
svc_batch(g, r, slots, i, wm) ==
    IF i > Len(slots) THEN g
    ELSE svc_batch(svc(checked(g, r, wm), r, slots[i], wm), r, slots, i + 1, wm)

(***************************************************************************)
(* The PipeGraph after its assembly, before run().                         *)
(***************************************************************************)
Assembled(mode, par, b) ==
    [run_pc |-> "assembled",
     mode |-> mode,
     generateWS |-> (mode = "DEFAULT"),
     parallelism |-> par,
     batch |-> b,
     channels |-> [l \in Links |-> <<>>],
     pending |-> [l \in Links |-> <<>>],
     last |-> [l \in Links |-> 0],
     buffers |-> [l \in Links |-> <<>>],
     outbox |-> [r \in Replicas |-> <<>>],
     next_dest |-> [r \in Replicas |-> 0],
     wms |-> [l \in Links |-> 0],
     cur_wm |-> [r \in Replicas |-> 0],
     closed |-> [l \in Links |-> FALSE],
     state |-> [r \in Replicas |-> "running"],
     generated |-> [r \in Replicas |-> 0],
     merged |-> [r \in Replicas |-> <<>>],
     sink_log |-> [r \in Replicas |-> <<>>],
     sink_bag |-> [r \in Replicas |-> EmptyBag],
     received |-> [r \in Replicas |-> 0],
     functor_calls |-> [r \in Replicas |-> <<>>],
     payloads_in |-> [r \in Replicas |-> 0],
     totalsum |-> [r \in Replicas |-> 0],
     global_sum |-> 0,
     assert_ok |-> TRUE,
     wm_ok |-> TRUE]

NumThreads(par) ==
    par["source"] + par["filter"] + par["map"] + par["sink"]

InitGraph ==
    /\ \E mode \in {"DEFAULT", "DETERMINISTIC"}, par \in [Operators -> dist_p],
          b \in dist_b :
          /\ NumThreads(par) <= MaxThreads
          /\ mode = "DETERMINISTIC" => b = 0
          /\ graph = Assembled(mode, par, b)
    /\ pipegraph = NotBuilt /\ win = NotBuilt
    /\ shipper = NotBuilt /\ builder = NotBuilt
    /\ emitters = NotBuilt /\ bench = NotBuilt
    /\ Constructed /\ recording = TRUE
    /\ size = 0 /\ ~useTreeMode /\ execution_mode = "DEFAULT"

(***************************************************************************)
(* The steps of the threads.                                               *)
(***************************************************************************)
Sources(g) == {r \in ActiveReplicas(g) : r[1] = "source"}

\* run() starts the threads
CanStart(g) == g.run_pc = "assembled"
started(g) == [g EXCEPT !.run_pc = "running"]

Start ==
    /\ CanStart(graph)
    /\ graph' = started(graph)
    /\ UNCHANGED <<vars, pipegraph, win, shipper, builder, emitters, bench>>

\* one iteration of the generation loop of the source functor
generate(g, s) ==
    LET n == g.generated[s] + 1
        t == Stream[n]
        wm == SourceWatermark(g, n)
        g1 == [g EXCEPT !.generated[s] = n, !.cur_wm[s] = wm]
    IN  ship(g1, s, branch(splitting_func(t)), t, next_ts(n), wm)

CanGenerate(g, s) ==
    /\ g.run_pc = "running"
    /\ s \in Sources(g)
    /\ g.state[s] = "running"
    /\ g.generated[s] < Len(Stream)
    /\ g.outbox[s] = <<>>

generated(g, s) == drain(generate(g, s), s)

Generate(s) ==
    /\ CanGenerate(graph, s)
    /\ graph' = generated(graph, s)
    /\ UNCHANGED <<vars, pipegraph, win, shipper, builder, emitters, bench>>

\* the source functor has returned: flush, then the final punctuation
source_end(g, s) ==
    broadcast(graph_flush([g EXCEPT !.state[s] = "flushed",
                                    !.cur_wm[s] = WmInf], s),
              s, PunctEnvelope(WmInf))

CanSourceEnd(g, s) ==
    /\ g.run_pc = "running"
    /\ s \in Sources(g)
    /\ g.state[s] = "running"
    /\ g.generated[s] = Len(Stream)
    /\ g.outbox[s] = <<>>

source_ended(g, s) == drain(source_end(g, s), s)

SourceEnd(s) ==
    /\ CanSourceEnd(graph, s)
    /\ graph' = source_ended(graph, s)
    /\ UNCHANGED <<vars, pipegraph, win, shipper, builder, emitters, bench>>

\* DETERMINISTIC mode: the ordering collector of a replica takes an input
\* out of its queue and keeps it in the buffer of its channel.  The inputs
\* of a channel come in the order of their timestamps: the timestamp of the
\* last one is the mark below which the channel brings nothing any more.
Mark(env) == IF env.kind = "data" THEN env.slots[1].timestamp ELSE WmInf

collect(g, l) ==
    LET env == Head(g.channels[l])
    IN  [g EXCEPT !.channels[l] = Tail(@),
                  !.pending[l] = Append(@, env),
                  !.last[l] = Mark(env)]

Inputs(g, l) == IF g.mode = "DETERMINISTIC" THEN g.pending[l] ELSE g.channels[l]

OrderKey(g, l) == <<Head(Inputs(g, l)).slots[1].timestamp, ChannelIndex(l)>>

Before(a, b) == a[1] < b[1] \/ (a[1] = b[1] /\ a[2] < b[2])

\* the tuples at the heads of the buffers of a replica
Candidates(g, r) ==
    {o \in InLinks(g, r) : g.pending[o] # <<>> /\ Head(g.pending[o]).kind = "data"}

\* the smallest candidate is handed over without waiting for the others
Ready_no_wait(g, r, l) ==
    /\ Inputs(g, l) # <<>>
    /\ (g.mode = "DETERMINISTIC" /\ Head(Inputs(g, l)).kind = "data") =>
          \A o \in Candidates(g, r) \ {l} :
              Before(OrderKey(g, l), OrderKey(g, o))

\* the input at the head of channel l may be consumed: always in DEFAULT
\* mode; in DETERMINISTIC mode a tuple must be the smallest candidate, and
\* waits for every other channel whose mark has not advanced past it
Ready(g, r, l) ==
    /\ Inputs(g, l) # <<>>
    /\ (g.mode = "DETERMINISTIC" /\ Head(Inputs(g, l)).kind = "data") =>
          /\ \A o \in Candidates(g, r) \ {l} :
                 Before(OrderKey(g, l), OrderKey(g, o))
          /\ \A o \in InLinks(g, r) \ {l} :
                 g.last[o] > Head(Inputs(g, l)).slots[1].timestamp

take(g, l) ==
    IF g.mode = "DETERMINISTIC" THEN [g EXCEPT !.pending[l] = Tail(@)]
    ELSE [g EXCEPT !.channels[l] = Tail(@)]

\* DETERMINISTIC mode: the history of the merge of a replica
note(g, r, l, env) ==
    IF g.mode = "DETERMINISTIC"
    THEN [g EXCEPT !.merged[r] = Append(@, <<env.slots[1].timestamp, ChannelIndex(l)>>)]
    ELSE g

\* the handler of a replica for one input of channel l
consume(g, r, l) ==
    LET env == Head(Inputs(g, l))
        g1 == take(g, l)
    IN  CASE env.kind = "data" ->
                LET g2 == update_wm(note(g1, r, l, env), r, l, env.wm)
                    g3 == [g2 EXCEPT !.payloads_in[r] = @ + Len(env.slots)]
                IN  svc_batch(g3, r, env.slots, 1, g3.cur_wm[r])
          [] env.kind = "punct" ->
                LET g2 == update_wm(g1, r, l, env.wm)
                IN  IF g.mode = "DEFAULT" /\ g2.cur_wm[r] > g.cur_wm[r]
                    THEN broadcast(graph_flush(g2, r), r,
                                   PunctEnvelope(g2.cur_wm[r]))
                    ELSE g2
          [] env.kind = "eos" -> [g1 EXCEPT !.closed[l] = TRUE]

\* DETERMINISTIC mode: the inputs the collector hands over next, punctuations
\* and end markers in the order of the channels
ReadySet(g, r) == {l \in InLinks(g, r) : Ready(g, r, l)}
Pick(ls) == CHOOSE l \in ls : \A o \in ls : ChannelIndex(l) <= ChannelIndex(o)

\* the thread of a replica in DETERMINISTIC mode hands over what is ready,
\* until nothing is ready any more or a full queue blocks it
RECURSIVE work(_, _)
work(g, r) ==
    LET g1 == drain(g, r)
    IN  IF g1.outbox[r] # <<>> \/ ReadySet(g1, r) = {} THEN g1
        ELSE work(consume(g1, r, Pick(ReadySet(g1, r))), r)

\* a replica takes one input out of the queue of channel l
CanConsume(g, l) ==
    /\ g.run_pc = "running"
    /\ l \in InLinks(g, l[2])
    /\ g.state[l[2]] = "running"
    /\ g.channels[l] # <<>>
    /\ g.outbox[l[2]] = <<>>

consumed(g, l) ==
    IF g.mode = "DETERMINISTIC" THEN work(collect(g, l), l[2])
    ELSE drain(consume(g, l[2], l), l[2])

Consume(l) ==
    /\ CanConsume(graph, l)
    /\ graph' = consumed(graph, l)
    /\ UNCHANGED <<vars, pipegraph, win, shipper, builder, emitters, bench>>

\* the replica ends on the end marker of one channel
EndOfSomeInput(g, r) ==
    IF r[1] = "source" THEN g.state[r] = "flushed"
    ELSE g.state[r] = "running" /\ \E l \in InLinks(g, r) : g.closed[l]

\* the replica has seen the end of all its inputs
EndOfInput(g, r) ==
    IF r[1] = "source" THEN g.state[r] = "flushed"
    ELSE g.state[r] = "running" /\ \A l \in InLinks(g, r) : g.closed[l]

\* the end of a replica: flush, end markers downstream, then the thread
\* exits; the Sink functor is called a last time without a tuple
terminate(g, r) ==
    LET g1 == eosnotify([g EXCEPT !.state[r] = "terminated"], r)
    IN  broadcast(graph_flush(g1, r), r, EndMarker)

CanTerminate(g, r) ==
    /\ g.run_pc = "running"
    /\ Active(g, r)
    /\ EndOfInput(g, r)
    /\ g.outbox[r] = <<>>

terminated(g, r) == drain(terminate(g, r), r)

Terminate(r) ==
    /\ CanTerminate(graph, r)
    /\ graph' = terminated(graph, r)
    /\ UNCHANGED <<vars, pipegraph, win, shipper, builder, emitters, bench>>

\* a queue has room again: the blocked thread goes on
CanUnblock(g, r) ==
    /\ g.run_pc = "running"
    /\ g.outbox[r] # <<>>
    /\ Len(g.channels[g.outbox[r][1][1]]) < queue_capacity

unblocked(g, r) ==
    IF g.mode = "DETERMINISTIC" /\ g.state[r] = "running" /\ r[1] # "source"
    THEN work(g, r) ELSE drain(g, r)

Unblock(r) ==
    /\ CanUnblock(graph, r)
    /\ graph' = unblocked(graph, r)
    /\ UNCHANGED <<vars, pipegraph, win, shipper, builder, emitters, bench>>

\* run() joins the threads and returns
CanReturn(g) ==
    /\ g.run_pc = "running"
    /\ \A r \in ActiveReplicas(g) :
          g.state[r] = "terminated" /\ g.outbox[r] = <<>>

returned(g) == [g EXCEPT !.run_pc = "returned"]

Return ==
    /\ CanReturn(graph)
    /\ graph' = returned(graph)
    /\ UNCHANGED <<vars, pipegraph, win, shipper, builder, emitters, bench>>

GenerateAny == \E s \in Replicas : Generate(s)
SourceEndAny == \E s \in Replicas : SourceEnd(s)
ConsumeAny == \E l \in Links : Consume(l)
TerminateAny == \E r \in Replicas : Terminate(r)
UnblockAny == \E r \in Replicas : Unblock(r)

NextGraph ==
    \/ Start
    \/ GenerateAny
    \/ SourceEndAny
    \/ ConsumeAny
    \/ TerminateAny
    \/ UnblockAny
    \/ Return

allvars == <<vars, graph, pipegraph, win, shipper, builder, emitters, bench>>

SpecGraph == InitGraph /\ [][NextGraph]_allvars

\* some thread can take a step: the guards of the actions
Runnable(g) ==
    \/ CanStart(g)
    \/ \E s \in Replicas : CanGenerate(g, s) \/ CanSourceEnd(g, s)
    \/ \E l \in Links : CanConsume(g, l)
    \/ \E r \in Replicas : CanTerminate(g, r) \/ CanUnblock(g, r)
    \/ CanReturn(g)

\* a fair scheduler: while some thread can take a step, a step is taken
\* (the weak fairness of NextGraph, its guard written out)
SpecGraphFair ==
    SpecGraph /\ ([]<>(~ Runnable(graph)) \/ []<><<graph' # graph>>_allvars)

(***************************************************************************)
(* The assembly of a PipeGraph (pipegraph.hpp and multipipe.hpp are        *)
(* described by the specification), as the three assembly tests drive it.  *)
(* The variable pipegraph is the PipeGraph under assembly: the degrees     *)
(* drawn by the test, the MultiPipes and the number of threads so far.     *)
(***************************************************************************)
Tests == {"test_graph_4", "test_split_gpu_kb_4", "test_split_gpu_2"}

\* a call of the assembly of a test: method, MultiPipe, operator, keyby,
\* and the MultiPipes a split, select or merge yields
Call(m, p, op, kb, yields) ==
    [method |-> m, pipe |-> p, op |-> op, keyby |-> kb, yields |-> yields]

assembly_test_graph_4 ==
    << Call("add_source", 1, "source1", FALSE, <<>>),
       Call("chain", 1, "map1", FALSE, <<>>),
       Call("split", 1, "", FALSE, <<2, 6>>),
       Call("select", 1, "", FALSE, <<2>>),
       Call("chain", 2, "filter1", TRUE, <<>>),
       Call("chain", 2, "map2", FALSE, <<>>),
       Call("split", 2, "", FALSE, <<3, 4>>),
       Call("select", 2, "", FALSE, <<3>>),
       Call("chain", 3, "map3", FALSE, <<>>),
       Call("select", 2, "", FALSE, <<4>>),
       Call("chain", 4, "filter2", FALSE, <<>>),
       Call("merge", 3, "", FALSE, <<4, 5>>),
       Call("chain", 5, "map4", FALSE, <<>>),
       Call("select", 1, "", FALSE, <<6>>),
       Call("chain", 6, "filter3", TRUE, <<>>),
       Call("add_source", 7, "source2", FALSE, <<>>),
       Call("chain", 7, "flatmap1", FALSE, <<>>),
       Call("merge", 5, "", FALSE, <<7, 6, 8>>),
       Call("chain_sink", 8, "sink1", FALSE, <<>>) >>

assembly_test_split_gpu_kb_4 ==
    << Call("add_source", 1, "source", FALSE, <<>>),
       Call("chain", 1, "map1", FALSE, <<>>),
       Call("chain", 1, "map2", TRUE, <<>>),
       Call("split", 1, "", FALSE, <<2, 3>>),
       Call("select", 1, "", FALSE, <<2>>),
       Call("chain", 2, "map3", TRUE, <<>>),
       Call("chain_sink", 2, "sink1", FALSE, <<>>),
       Call("select", 1, "", FALSE, <<3>>),
       Call("chain", 3, "map4", TRUE, <<>>),
       Call("chain_sink", 3, "sink2", FALSE, <<>>) >>

assembly_test_split_gpu_2 ==
    << Call("add_source", 1, "source", FALSE, <<>>),
       Call("chain", 1, "map1", FALSE, <<>>),
       Call("chain", 1, "map2", FALSE, <<>>),
       Call("split", 1, "", FALSE, <<2, 3>>),
       Call("select", 1, "", FALSE, <<2>>),
       Call("chain", 2, "map3", FALSE, <<>>),
       Call("chain_sink", 2, "sink1", FALSE, <<>>),
       Call("select", 1, "", FALSE, <<3>>),
       Call("chain", 3, "map4", FALSE, <<>>),
       Call("chain_sink", 3, "sink2", FALSE, <<>>) >>

Assembly(test) ==
    CASE test = "test_graph_4" -> assembly_test_graph_4
      [] test = "test_split_gpu_kb_4" -> assembly_test_split_gpu_kb_4
      [] test = "test_split_gpu_2" -> assembly_test_split_gpu_2

OperatorsOf(test) ==
    {Assembly(test)[i].op : i \in DOMAIN Assembly(test)} \ {""}

\* the check the tests compare getNumThreads() with
check_degree_test_graph_4(d) ==
    d["source1"]
    + (IF d["source1"] # d["map1"] THEN d["map1"] ELSE 0)
    + d["filter1"]
    + (IF d["filter1"] # d["map2"] THEN d["map2"] ELSE 0)
    + d["map3"] + d["filter2"] + d["map4"] + d["filter3"]
    + d["source2"]
    + (IF d["source2"] # d["flatmap1"] THEN d["flatmap1"] ELSE 0)
    + d["sink1"]

check_degree_test_split_gpu_kb_4(d) ==
    d["source"]
    + (IF d["source"] # d["map1"] THEN d["map1"] ELSE 0)
    + d["map2"]
    + d["map3"]
    + (IF d["map3"] # d["sink1"] THEN d["sink1"] ELSE 0)
    + d["map4"]
    + (IF d["map4"] # d["sink2"] THEN d["sink2"] ELSE 0)

check_degree_test_split_gpu_2(d) ==
    d["source"]
    + (IF d["source"] # d["map1"] THEN d["map1"] ELSE 0)
    + (IF d["map1"] # d["map2"] THEN d["map2"] ELSE 0)
    + d["map3"]
    + (IF d["map3"] # d["sink1"] THEN d["sink1"] ELSE 0)
    + d["map4"]
    + (IF d["map4"] # d["sink2"] THEN d["sink2"] ELSE 0)

check_degree(test, d) ==
    CASE test = "test_graph_4" -> check_degree_test_graph_4(d)
      [] test = "test_split_gpu_kb_4" -> check_degree_test_split_gpu_kb_4(d)
      [] test = "test_split_gpu_2" -> check_degree_test_split_gpu_2(d)

\* a MultiPipe: the parallelism of its last operator (0: no operator yet)
\* and what became of it
MultiPipe(last, st) == [last |-> last, status |-> st]

Declared(test, d) ==
    [test |-> test,
     degree |-> d,
     pc |-> 1,
     pipes |-> [p \in 1 .. 8 |-> MultiPipe(0, "none")],
     threads |-> 0,
     chained |-> {}]

InitAssembly ==
    /\ \E test \in Tests :
          \E d \in [OperatorsOf(test) -> dist_p] :
              pipegraph = Declared(test, d)
    /\ graph = NotBuilt /\ win = NotBuilt
    /\ shipper = NotBuilt /\ builder = NotBuilt
    /\ emitters = NotBuilt /\ bench = NotBuilt
    /\ Constructed /\ recording = TRUE
    /\ size = 0 /\ ~useTreeMode /\ execution_mode = "DEFAULT"

Current(pg) == Assembly(pg.test)[pg.pc]

Calls(pg, m) ==
    /\ pg # NotBuilt
    /\ pg.pc <= Len(Assembly(pg.test))
    /\ Current(pg).method = m

\* add_source(op): a new MultiPipe of the parallelism of the source
add_source(pg, c) ==
    [pg EXCEPT !.pipes[c.pipe] = MultiPipe(pg.degree[c.op], "open"),
               !.threads = @ + pg.degree[c.op],
               !.pc = @ + 1]

\* chain(op) takes equal parallelism for enough, keyby or not
chain_ignoring_keyby(pg, c) ==
    LET direct == pg.pipes[c.pipe].last = pg.degree[c.op]
    IN  [pg EXCEPT !.pipes[c.pipe].last = pg.degree[c.op],
                   !.threads = IF direct THEN @ ELSE @ + pg.degree[c.op],
                   !.chained = IF direct THEN @ \cup {c.op} ELSE @,
                   !.pc = @ + 1]

\* chain(op): a direct connection to the last operator of the MultiPipe if
\* the parallelism is equal and the routing is forward, a new stage otherwise
chain(pg, c) ==
    LET direct == ~ c.keyby /\ pg.pipes[c.pipe].last = pg.degree[c.op]
    IN  [pg EXCEPT !.pipes[c.pipe].last = pg.degree[c.op],
                   !.threads = IF direct THEN @ ELSE @ + pg.degree[c.op],
                   !.chained = IF direct THEN @ \cup {c.op} ELSE @,
                   !.pc = @ + 1]

\* chain_sink(op): the terminal chain
chain_sink(pg, c) ==
    [chain(pg, c) EXCEPT !.pipes[c.pipe].status = "closed"]

\* split(fn, K): K new MultiPipes downstream, without operators yet
split(pg, c) ==
    [pg EXCEPT !.pipes = [p \in 1 .. 8 |->
                    IF p = c.pipe THEN MultiPipe(@[p].last, "split")
                    ELSE IF \E i \in DOMAIN c.yields : c.yields[i] = p
                    THEN MultiPipe(0, "branch")
                    ELSE @[p]],
               !.pc = @ + 1]

\* select(i): the i-th MultiPipe after the split
select(pg, c) ==
    [pg EXCEPT !.pipes[c.yields[1]].status = "open", !.pc = @ + 1]

\* merge(pipe...): the pipes are folded into a new MultiPipe, without
\* operators yet; the new one is the last of yields
merge(pg, c) ==
    LET new == c.yields[Len(c.yields)]
    IN  [pg EXCEPT !.pipes = [p \in 1 .. 8 |->
                        IF p = new THEN MultiPipe(0, "open")
                        ELSE IF p = c.pipe \/ \E i \in DOMAIN c.yields : c.yields[i] = p
                        THEN MultiPipe(@[p].last, "merged")
                        ELSE @[p]],
                   !.pc = @ + 1]

getNumThreads(pg) == pg.threads

AddSource ==
    /\ Calls(pipegraph, "add_source")
    /\ pipegraph' = add_source(pipegraph, Current(pipegraph))
    /\ UNCHANGED <<vars, graph, win, shipper, builder, emitters, bench>>

Chain ==
    /\ Calls(pipegraph, "chain")
    /\ pipegraph' = chain(pipegraph, Current(pipegraph))
    /\ UNCHANGED <<vars, graph, win, shipper, builder, emitters, bench>>

ChainSink ==
    /\ Calls(pipegraph, "chain_sink")
    /\ pipegraph' = chain_sink(pipegraph, Current(pipegraph))
    /\ UNCHANGED <<vars, graph, win, shipper, builder, emitters, bench>>

Split ==
    /\ Calls(pipegraph, "split")
    /\ pipegraph' = split(pipegraph, Current(pipegraph))
    /\ UNCHANGED <<vars, graph, win, shipper, builder, emitters, bench>>

Select ==
    /\ Calls(pipegraph, "select")
    /\ pipegraph' = select(pipegraph, Current(pipegraph))
    /\ UNCHANGED <<vars, graph, win, shipper, builder, emitters, bench>>

Merge ==
    /\ Calls(pipegraph, "merge")
    /\ pipegraph' = merge(pipegraph, Current(pipegraph))
    /\ UNCHANGED <<vars, graph, win, shipper, builder, emitters, bench>>

NextAssembly ==
    \/ AddSource
    \/ Chain
    \/ ChainSink
    \/ Split
    \/ Select
    \/ Merge

SpecAssembly == InitAssembly /\ [][NextAssembly]_allvars

(***************************************************************************)
(* Parallel_Windows (parallel_windows.hpp) and its replicas.  The replica  *)
(* (Window_Replica) is described by the specification.  The variable win   *)
(* is the operator at work on the stream of one key, which its emitter     *)
(* broadcasts to every replica.                                            *)
(***************************************************************************)
Win_Type_t == {"CB", "TB"}

Window_Replica(win_len, slide_len, lateness, winType, role, id_inner, n_inner) ==
    [win_len |-> win_len, slide_len |-> slide_len, lateness |-> lateness,
     winType |-> winType, role |-> role,
     id_inner |-> id_inner, n_inner |-> n_inner]

\* the private constructor without the factor of the slide
Parallel_Windows_same_slide(parallelism, win_len, slide_len, lateness, winType, role) ==
    [parallelism |-> parallelism, win_len |-> win_len, slide_len |-> slide_len,
     lateness |-> lateness, winType |-> winType,
     replicas |-> [i \in 0 .. parallelism - 1 |->
                      Window_Replica(win_len, slide_len, lateness,
                                     winType, role, i, parallelism)],
     exit_status |-> "none", cerr |-> ""]

\* exit(EXIT_FAILURE) in the constructor, after the diagnostic: the fields
\* are initialised, no replica exists
exit_failure(parallelism, win_len, slide_len, lateness, winType, diagnostic) ==
    [parallelism |-> parallelism, win_len |-> win_len, slide_len |-> slide_len,
     lateness |-> lateness, winType |-> winType,
     replicas |-> << >>,
     exit_status |-> "EXIT_FAILURE", cerr |-> diagnostic]

\* the private constructor without its checks
Parallel_Windows_unchecked(parallelism, win_len, slide_len, lateness, winType, role) ==
    [parallelism |-> parallelism, win_len |-> win_len, slide_len |-> slide_len,
     lateness |-> lateness, winType |-> winType,
     replicas |-> [i \in 0 .. parallelism - 1 |->
                      Window_Replica(win_len, slide_len * parallelism, lateness,
                                     winType, role, i, parallelism)],
     exit_status |-> "none", cerr |-> ""]

\* the private constructor
Parallel_Windows(parallelism, win_len, slide_len, lateness, winType, role) ==
    IF parallelism = 0
    THEN exit_failure(parallelism, win_len, slide_len, lateness, winType,
                      "WindFlow Error: Parallel_Windows has parallelism zero")
    ELSE IF win_len = 0 \/ slide_len = 0
    THEN exit_failure(parallelism, win_len, slide_len, lateness, winType,
                      "WindFlow Error: Parallel_Windows used with window length or slide equal to zero")
    ELSE
    [parallelism |-> parallelism, win_len |-> win_len, slide_len |-> slide_len,
     lateness |-> lateness, winType |-> winType,
     replicas |-> [i \in 0 .. parallelism - 1 |->
                      IF role # "MAP"
                      THEN Window_Replica(win_len, slide_len * parallelism, lateness,
                                          winType, role, i, parallelism)
                      ELSE Window_Replica(win_len, slide_len, lateness,
                                          winType, role, 0, 1)],
     exit_status |-> "none", cerr |-> ""]

\* the public constructor
Parallel_Windows_public(parallelism, win_len, slide_len, lateness, winType) ==
    Parallel_Windows(parallelism, win_len, slide_len, lateness, winType, "SEQ")

getInputRoutingMode == "BROADCAST"

\* the windows of a replica: the lwid-th of them is window gwid of the
\* operator and starts initial_id + lwid * slide_len
initial_id(r) == r.id_inner * (r.slide_len \div r.n_inner)
gwid(r, lwid) == r.id_inner + lwid * r.n_inner
start(r, lwid) == initial_id(r) + lwid * r.slide_len
end(r, lwid) == start(r, lwid) + r.win_len

\* the windows position x (arrival index under CB, timestamp under TB)
\* belongs to: the first is ceil((x + 1 - win_len) / slide_len), the last
\* is the last that starts at or before x
first_window_id(r, x) ==
    LET a == x + 1 - r.win_len - initial_id(r)
    IN  IF a <= 0 THEN 0 ELSE (a + r.slide_len - 1) \div r.slide_len

last_window_id(r, x) ==
    IF x < initial_id(r) THEN -1 ELSE (x - initial_id(r)) \div r.slide_len

WindowsOf(r, x) == first_window_id(r, x) .. last_window_id(r, x)

\* a window: (window_id, [start, end), state), the state a count
Window(r, lwid) ==
    [lwid |-> lwid, gwid |-> gwid(r, lwid),
     start |-> start(r, lwid), end |-> end(r, lwid), count |-> 0]

Infinity == MaxTs + MaxWinLen + MaxLateness + 1

\* the operator before the first input
Built(pw) ==
    [pc |-> "running",
     op |-> pw,
     stream |-> << >>,
     ended |-> FALSE,
     next_wm |-> 0,
     rep |-> [i \in DOMAIN pw.replicas |->
                 [pos |-> 0, cur_wm |-> 0, open |-> {}, fired |-> << >>,
                  ignored |-> 0, dropped |-> 0]]]

InitWindows ==
    /\ \E winType \in Win_Type_t, parallelism \in 1 .. MaxPar,
          win_len \in 1 .. MaxWinLen, slide_len \in 1 .. MaxSlide,
          lateness \in 0 .. MaxLateness :
          /\ winType = "CB" => lateness = 0
          /\ win = Built(Parallel_Windows_public(parallelism, win_len, slide_len,
                                                 lateness, winType))
    /\ graph = NotBuilt /\ pipegraph = NotBuilt
    /\ shipper = NotBuilt /\ builder = NotBuilt
    /\ emitters = NotBuilt /\ bench = NotBuilt
    /\ Constructed /\ recording = TRUE
    /\ size = 0 /\ ~useTreeMode /\ execution_mode = "DEFAULT"

Tuple(id, ts, wm) == [kind |-> "tuple", id |-> id, ts |-> ts, wm |-> wm]
Punctuation(wm) == [kind |-> "punct", id |-> 0, ts |-> 0, wm |-> wm]

\* the source: the tuples of one key, numbered by arrival; under CB the
\* timestamp is the number, under TB the source sets timestamp and next
\* watermark, and may send a tuple older than its watermark
produce(w, ts, wm) ==
    [w EXCEPT !.stream = Append(@, Tuple(Len(@), ts, wm)), !.next_wm = wm]

CanProduce(w) ==
    /\ w # NotBuilt
    /\ w.pc = "running"
    /\ ~ w.ended
    /\ Len(w.stream) < (IF w.op.winType = "CB" THEN MaxTuples ELSE MaxTimed)

Produce ==
    /\ CanProduce(win)
    /\ IF win.op.winType = "CB"
       THEN win' = produce(win, Len(win.stream), Len(win.stream))
       ELSE \E ts \in 0 .. MaxTs :
               \E wm \in {win.next_wm, Max(win.next_wm, ts)} :
                   win' = produce(win, ts, wm)
    /\ UNCHANGED <<vars, graph, pipegraph, shipper, builder, emitters, bench>>

\* the end of the stream: the final punctuation of watermark infinity
EndStream ==
    /\ win # NotBuilt
    /\ win.pc = "running"
    /\ ~ win.ended
    /\ win' = [win EXCEPT !.stream = Append(@, Punctuation(Infinity)),
                          !.ended = TRUE]
    /\ UNCHANGED <<vars, graph, pipegraph, shipper, builder, emitters, bench>>

\* the replica's current input watermark after the update by the input:
\* the minimum over its one input channel
current_watermark(rs, e) == e.wm

\* a tuple of TB windows is ignored if it is older than the watermark by
\* more than the lateness
is_ignored_never(r, rs, e) == FALSE

is_ignored(r, rs, e) ==
    r.winType = "TB" /\ e.ts < rs.cur_wm - r.lateness

\* the window is created on its first tuple and updated on the next ones
RECURSIVE insert(_, _, _)
insert(r, open, lwids) ==
    IF lwids = {} THEN open
    ELSE LET lwid == CHOOSE j \in lwids : TRUE
             old == {o \in open : o.lwid = lwid}
             o == IF old = {} THEN Window(r, lwid) ELSE CHOOSE x \in old : TRUE
         IN  insert(r, (open \ old) \cup {[o EXCEPT !.count = @ + 1]},
                    lwids \ {lwid})

\* CB: a window fires when it received more than win_len tuples
is_complete_late(r, o) == o.count > r.win_len

\* CB: a window fires when it receives its win_len-th tuple
is_complete(r, o) == o.count = r.win_len

\* TB: a window fires when the current watermark reached end + lateness
is_due(r, o, wm) == wm >= o.end + r.lateness

Triggered(r, rs) ==
    {o \in rs.open : IF r.winType = "CB" THEN is_complete(r, o)
                     ELSE is_due(r, o, rs.cur_wm)}

\* the fired windows leave in the order of their ends; the result keeps the
\* watermark and the arrival number it was emitted at; the window is destroyed
RECURSIVE fire(_, _, _)
fire(r, rs, at) ==
    LET due == Triggered(r, rs)
    IN  IF due = {} THEN rs
        ELSE LET o == CHOOSE x \in due : \A y \in due : x.end <= y.end
             IN  fire(r, [rs EXCEPT !.open = @ \ {o},
                                    !.fired = Append(@, [window |-> o,
                                                         wm |-> rs.cur_wm,
                                                         at |-> at])],
                      at)

\* one input of a replica
Window_Replica_svc(r, rs, e) ==
    LET rs1 == [rs EXCEPT !.pos = @ + 1, !.cur_wm = current_watermark(rs, e)]
        x == IF r.winType = "CB" THEN e.id ELSE e.ts
        rs2 == IF e.kind = "punct" THEN rs1
               ELSE IF is_ignored(r, rs1, e)
               THEN [rs1 EXCEPT !.ignored = @ + 1]
               ELSE IF WindowsOf(r, x) = {}
               THEN [rs1 EXCEPT !.dropped = @ + 1]
               ELSE [rs1 EXCEPT !.open = insert(r, @, WindowsOf(r, x))]
    IN  fire(r, rs2, e.id)

CanReceive(w, i) ==
    /\ w # NotBuilt
    /\ w.pc = "running"
    /\ i \in DOMAIN w.op.replicas
    /\ w.rep[i].pos < Len(w.stream)

ReplicaSvc ==
    \E i \in 0 .. MaxPar - 1 :
        /\ CanReceive(win, i)
        /\ win' = [win EXCEPT !.rep[i] =
                      Window_Replica_svc(win.op.replicas[i], @,
                                         win.stream[@.pos + 1])]
        /\ UNCHANGED <<vars, graph, pipegraph, shipper, builder, emitters, bench>>

NextWindows ==
    \/ Produce
    \/ EndStream
    \/ ReplicaSvc

SpecWindows == InitWindows /\ [][NextWindows]_allvars

(***************************************************************************)
(* The construction of a Parallel_Windows with any arguments, zero         *)
(* included, followed by its work if the constructor returns.              *)
(***************************************************************************)
InitConstruction ==
    /\ \E winType \in Win_Type_t, parallelism \in 0 .. MaxPar,
          win_len \in 0 .. MaxWinLen, slide_len \in 0 .. MaxSlide,
          lateness \in 0 .. MaxLateness :
          /\ winType = "CB" => lateness = 0
          /\ win = [pc |-> "constructing",
                    args |-> [parallelism |-> parallelism, win_len |-> win_len,
                              slide_len |-> slide_len, lateness |-> lateness,
                              winType |-> winType]]
    /\ graph = NotBuilt /\ pipegraph = NotBuilt
    /\ shipper = NotBuilt /\ builder = NotBuilt
    /\ emitters = NotBuilt /\ bench = NotBuilt
    /\ Constructed /\ recording = TRUE
    /\ size = 0 /\ ~useTreeMode /\ execution_mode = "DEFAULT"

\* the process after the call of the public constructor
construct(a) ==
    LET pw == Parallel_Windows_public(a.parallelism, a.win_len, a.slide_len,
                                      a.lateness, a.winType)
    IN  IF pw.exit_status = "EXIT_FAILURE"
        THEN [pc |-> "exited", args |-> a, op |-> pw]
        ELSE Built(pw)

Construct ==
    /\ win # NotBuilt
    /\ win.pc = "constructing"
    /\ win' = construct(win.args)
    /\ UNCHANGED <<vars, graph, pipegraph, shipper, builder, emitters, bench>>

NextConstruction ==
    \/ Construct
    \/ Produce
    \/ EndStream
    \/ ReplicaSvc

SpecConstruction == InitConstruction /\ [][NextConstruction]_allvars

(***************************************************************************)
(* The Shipper (shipper.hpp) of a FlatMap replica.  The replica sets the   *)
(* parameters of the Shipper for each input and calls the functor, which   *)
(* pushes its results; the variable shipper keeps the fields of the        *)
(* Shipper, the calls made on it and the calls it made on its emitter.     *)
(***************************************************************************)
\* Shipper::Shipper
Shipper ==
    [pc |-> "idle",
     num_delivered |-> 0,
     timestamp |-> 0,
     watermark |-> 0,
     t |-> [key |-> 0, value |-> 0],
     i |-> 0,
     parameters |-> << >>,
     pushes |-> 0,
     emit_calls |-> << >>]

InitShipper ==
    /\ shipper = Shipper
    /\ graph = NotBuilt /\ pipegraph = NotBuilt /\ win = NotBuilt
    /\ builder = NotBuilt
    /\ emitters = NotBuilt /\ bench = NotBuilt
    /\ Constructed /\ recording = TRUE
    /\ size = 0 /\ ~useTreeMode /\ execution_mode = "DEFAULT"

\* the timestamp is set, the watermark is left as it was
setShipperParameters_ts_only(s, ts, wm) ==
    [s EXCEPT !.timestamp = ts]

setShipperParameters(s, ts, wm) ==
    [s EXCEPT !.timestamp = ts, !.watermark = wm]

getNumDelivered(s) == s.num_delivered

\* emitter->emit(&copy_result, 0, timestamp, watermark, node)
push(s, r) ==
    [s EXCEPT !.emit_calls = Append(@, [tuple |-> r, identifier |-> 0,
                                        timestamp |-> s.timestamp,
                                        watermark |-> s.watermark]),
              !.num_delivered = @ + 1]

\* the replica receives an input: the parameters are those of the input,
\* then the functor is called
FlatMapSvc ==
    /\ shipper # NotBuilt
    /\ shipper.pc = "idle"
    /\ Len(shipper.parameters) < MaxOps
    /\ \E k \in 0 .. 1, ts \in 0 .. MaxTs, wm \in Watermarks :
          shipper' =
              [setShipperParameters(shipper, ts, wm) EXCEPT
                  !.pc = "functor",
                  !.t = [key |-> k, value |-> Len(shipper.parameters) + 1],
                  !.i = 0,
                  !.parameters = Append(@, [timestamp |-> ts, watermark |-> wm])]
    /\ UNCHANGED <<vars, graph, pipegraph, win, builder, emitters, bench>>

\* FlatMap_Functor: for (i = 0; i < 3; i++) shipper.push(t)
FlatMap_Functor_push ==
    /\ shipper # NotBuilt
    /\ shipper.pc = "functor"
    /\ shipper.i < FlatMap_Functor_pushes
    /\ shipper' = [push(shipper, shipper.t) EXCEPT !.i = @ + 1, !.pushes = @ + 1]
    /\ UNCHANGED <<vars, graph, pipegraph, win, builder, emitters, bench>>

FlatMap_Functor_return ==
    /\ shipper # NotBuilt
    /\ shipper.pc = "functor"
    /\ shipper.i >= FlatMap_Functor_pushes
    /\ shipper' = [shipper EXCEPT !.pc = "idle"]
    /\ UNCHANGED <<vars, graph, pipegraph, win, builder, emitters, bench>>

NextShipper ==
    \/ FlatMapSvc
    \/ FlatMap_Functor_push
    \/ FlatMap_Functor_return

SpecShipper == InitShipper /\ [][NextShipper]_allvars

(***************************************************************************)
(* The builders of the GPU operators (builders_gpu.hpp): MapGPU_Builder,   *)
(* FilterGPU_Builder and FFAT_AggregatorGPU_Builder.  The variable builder *)
(* holds the fields of the builder the chain of calls has reached, the     *)
(* last call, and the operator once build() has returned.                  *)
(***************************************************************************)
BuilderKinds ==
    {"MapGPU_Builder", "FilterGPU_Builder", "ReduceGPU_Builder",
     "FFAT_AggregatorGPU_Builder"}

DefaultName(kind) ==
    CASE kind = "MapGPU_Builder" -> "map_gpu"
      [] kind = "FilterGPU_Builder" -> "filter_gpu"
      [] kind = "ReduceGPU_Builder" -> "reduce_gpu"
      [] kind = "FFAT_AggregatorGPU_Builder" -> "ffat_aggregator_gpu"

NoCall == [method |-> "none", args |-> << >>]

\* the public constructor: the default member initialisers
Builder(kind) ==
    [kind |-> kind,
     pc |-> "open",
     name |-> DefaultName(kind),
     parallelism |-> 1,
     key_t |-> "empty_key_t",
     input_routing_mode |-> "FORWARD",
     isKeyBySet |-> FALSE,
     outputBatchSize |-> 0,
     win_len |-> 0,
     slide_len |-> 0,
     quantum |-> 0,
     lateness |-> 0,
     winType |-> "CB",
     cerr |-> "",
     n_calls |-> 0,
     keyby_called |-> FALSE,
     last |-> NoCall,
     op |-> [type |-> "none"]]

InitBuilder ==
    /\ \E kind \in BuilderKinds : builder = Builder(kind)
    /\ graph = NotBuilt /\ pipegraph = NotBuilt /\ win = NotBuilt
    /\ shipper = NotBuilt
    /\ emitters = NotBuilt /\ bench = NotBuilt
    /\ Constructed /\ recording = TRUE
    /\ size = 0 /\ ~useTreeMode /\ execution_mode = "DEFAULT"

IsFFAT(b) == b.kind = "FFAT_AggregatorGPU_Builder"

\* std::cerr << diagnostic; exit(EXIT_FAILURE)
exit_with(b, diagnostic) == [b EXCEPT !.pc = "exited", !.cerr = diagnostic]

withName(b, _name) == [b EXCEPT !.name = _name]

withParallelism(b, _parallelism) == [b EXCEPT !.parallelism = _parallelism]

\* withKeyBy of MapGPU_Builder with the routing mode left as it was
withKeyBy_forward(b) ==
    [Builder(b.kind) EXCEPT
        !.name = b.name, !.parallelism = b.parallelism,
        !.key_t = "new_key_t",
        !.isKeyBySet = IsFFAT(b),
        !.outputBatchSize = b.outputBatchSize,
        !.win_len = b.win_len, !.slide_len = b.slide_len,
        !.quantum = b.quantum, !.lateness = b.lateness,
        !.winType = b.winType]

\* Mutant: withKeyBy that leaves the parallelism of the new builder at its
\* default.
withKeyBy_default_parallelism(b) ==
    IF IsFFAT(b)
    THEN [Builder(b.kind) EXCEPT
             !.key_t = "new_key_t",
             !.name = b.name,
             !.isKeyBySet = TRUE,
             !.outputBatchSize = b.outputBatchSize,
             !.win_len = b.win_len, !.slide_len = b.slide_len,
             !.quantum = b.quantum, !.lateness = b.lateness,
             !.winType = b.winType]
    ELSE IF b.kind = "ReduceGPU_Builder"
    THEN [Builder(b.kind) EXCEPT !.key_t = "new_key_t", !.name = b.name]
    ELSE [Builder(b.kind) EXCEPT
             !.key_t = "new_key_t", !.name = b.name,
             !.input_routing_mode = "KEYBY"]

\* withKeyBy: a new builder with the key extractor, the fields copied one
\* by one
withKeyBy(b) ==
    IF IsFFAT(b)
    THEN [Builder(b.kind) EXCEPT
             !.key_t = "new_key_t",
             !.name = b.name, !.parallelism = b.parallelism,
             !.isKeyBySet = TRUE,
             !.outputBatchSize = b.outputBatchSize,
             !.win_len = b.win_len, !.slide_len = b.slide_len,
             !.quantum = b.quantum, !.lateness = b.lateness,
             !.winType = b.winType]
    ELSE IF b.kind = "ReduceGPU_Builder"
    THEN [Builder(b.kind) EXCEPT
             !.key_t = "new_key_t",
             !.name = b.name, !.parallelism = b.parallelism]
    ELSE [Builder(b.kind) EXCEPT
             !.key_t = "new_key_t",
             !.name = b.name, !.parallelism = b.parallelism,
             !.input_routing_mode = "KEYBY"]

withOutputBatchSize(b, _outputBatchSize) ==
    [b EXCEPT !.outputBatchSize = _outputBatchSize]

\* Mutant: withCBWindows that keeps the lateness set for time-based windows.
withCBWindows_keep_lateness(b, _win_len, _slide_len) ==
    [b EXCEPT !.win_len = _win_len, !.slide_len = _slide_len,
              !.winType = "CB"]

withCBWindows(b, _win_len, _slide_len) ==
    [b EXCEPT !.win_len = _win_len, !.slide_len = _slide_len,
              !.winType = "CB", !.lateness = 0]

\* x % quantum with quantum = 0 is undefined: the process is killed by the
\* trap of the division, or the division yields 0 and the remainder is x
UndefinedOutcomes == {"trap", "remainder_is_dividend"}

withTBWindows(b, _win_len, _slide_len, _quantum, outcome) ==
    LET b1 == [b EXCEPT !.win_len = _win_len, !.slide_len = _slide_len,
                        !.quantum = _quantum]
        rem(x) == IF _quantum = 0 THEN x ELSE x % _quantum
    IN  IF _quantum = 0 /\ outcome = "trap"
        THEN [b1 EXCEPT !.pc = "killed"]
        ELSE IF rem(b1.win_len) # 0 \/ rem(b1.slide_len) # 0
        THEN exit_with(b1, "WindFlow Error: window length and slide must be divisible by the quantum parameter")
        ELSE [b1 EXCEPT !.winType = "TB"]

\* withLateness that records the lateness whatever the window type
withLateness_unchecked(b, _lateness) == [b EXCEPT !.lateness = _lateness]

withLateness(b, _lateness) ==
    IF b.winType # "TB"
    THEN exit_with(b, "WindFlow Error: lateness can be set only for time-based windows")
    ELSE [b EXCEPT !.lateness = _lateness]

\* the operator a builder hands its fields to; its constructor is called
\* with them
Operator(b) ==
    CASE b.kind = "MapGPU_Builder" ->
            [type |-> "Map_GPU", parallelism |-> b.parallelism, name |-> b.name,
             input_routing_mode |-> b.input_routing_mode]
      [] b.kind = "FilterGPU_Builder" ->
            [type |-> "Filter_GPU", parallelism |-> b.parallelism, name |-> b.name,
             input_routing_mode |-> b.input_routing_mode]
      [] b.kind = "ReduceGPU_Builder" ->
            [type |-> "Reduce_GPU", parallelism |-> b.parallelism, name |-> b.name,
             key_extr |-> IF b.key_t = "empty_key_t" THEN "k_t" ELSE "key_extr"]
      [] b.kind = "FFAT_AggregatorGPU_Builder" ->
            [type |-> "FFAT_Aggregator_GPU", parallelism |-> b.parallelism,
             name |-> b.name, outputBatchSize |-> b.outputBatchSize,
             win_len |-> b.win_len, slide_len |-> b.slide_len,
             quantum |-> b.quantum, lateness |-> b.lateness,
             winType |-> b.winType]

\* build() that asks for a key extractor at any parallelism
build_always_keyed(b) ==
    IF IsFFAT(b) /\ ~ b.isKeyBySet
    THEN exit_with(b, "WindFlow Error: FFAT_Aggregator_GPU with parallelism > 1 requires a key extractor")
    ELSE [b EXCEPT !.pc = "built", !.op = Operator(b)]

build(b) ==
    IF IsFFAT(b) /\ ~ b.isKeyBySet /\ b.parallelism > 1
    THEN exit_with(b, "WindFlow Error: FFAT_Aggregator_GPU with parallelism > 1 requires a key extractor")
    ELSE [b EXCEPT !.pc = "built", !.op = Operator(b)]

\* the routing mode of the inputs of the operator
OperatorRoutingMode(op) == op.input_routing_mode

\* the program calls a method on the builder it holds
CanCall(b) == b # NotBuilt /\ b.pc = "open" /\ b.n_calls < MaxCalls

called(b, after, method, args) ==
    [after EXCEPT !.n_calls = b.n_calls + 1,
                  !.keyby_called = b.keyby_called \/ method = "withKeyBy",
                  !.last = [method |-> method, args |-> args]]

WithName ==
    /\ CanCall(builder)
    /\ \E _name \in {"op"} :
          builder' = called(builder, withName(builder, _name), "withName", <<_name>>)
    /\ UNCHANGED <<vars, graph, pipegraph, win, shipper, emitters, bench>>

WithParallelism ==
    /\ CanCall(builder)
    /\ \E p \in 0 .. MaxPar :
          builder' = called(builder, withParallelism(builder, p),
                            "withParallelism", <<p>>)
    /\ UNCHANGED <<vars, graph, pipegraph, win, shipper, emitters, bench>>

WithKeyBy ==
    /\ CanCall(builder)
    /\ builder' = called(builder, withKeyBy(builder), "withKeyBy", << >>)
    /\ UNCHANGED <<vars, graph, pipegraph, win, shipper, emitters, bench>>

WithOutputBatchSize ==
    /\ CanCall(builder) /\ IsFFAT(builder)
    /\ \E s \in dist_b :
          builder' = called(builder, withOutputBatchSize(builder, s),
                            "withOutputBatchSize", <<s>>)
    /\ UNCHANGED <<vars, graph, pipegraph, win, shipper, emitters, bench>>

WithCBWindows ==
    /\ CanCall(builder) /\ IsFFAT(builder)
    /\ \E w \in 0 .. MaxWinLen, s \in 0 .. MaxSlide :
          builder' = called(builder, withCBWindows(builder, w, s),
                            "withCBWindows", <<w, s>>)
    /\ UNCHANGED <<vars, graph, pipegraph, win, shipper, emitters, bench>>

WithTBWindows ==
    /\ CanCall(builder) /\ IsFFAT(builder)
    /\ \E w \in 0 .. MaxWinLen, s \in 0 .. MaxSlide, q \in 0 .. MaxQuantum :
          \E outcome \in UndefinedOutcomes :
              builder' = called(builder, withTBWindows(builder, w, s, q, outcome),
                                "withTBWindows", <<w, s, q>>)
    /\ UNCHANGED <<vars, graph, pipegraph, win, shipper, emitters, bench>>

WithLateness ==
    /\ CanCall(builder) /\ IsFFAT(builder)
    /\ \E l \in 0 .. MaxLateness :
          builder' = called(builder, withLateness(builder, l), "withLateness", <<l>>)
    /\ UNCHANGED <<vars, graph, pipegraph, win, shipper, emitters, bench>>

Build ==
    /\ builder # NotBuilt /\ builder.pc = "open"
    /\ builder' = [build(builder) EXCEPT !.last = [method |-> "build", args |-> << >>]]
    /\ UNCHANGED <<vars, graph, pipegraph, win, shipper, emitters, bench>>

NextBuilder ==
    \/ WithName
    \/ WithParallelism
    \/ WithKeyBy
    \/ WithOutputBatchSize
    \/ WithCBWindows
    \/ WithTBWindows
    \/ WithLateness
    \/ Build

SpecBuilder == InitBuilder /\ [][NextBuilder]_allvars

(***************************************************************************)
(* What the destinations are sent, read from the histories.                *)
(***************************************************************************)
\* the (message, destination) pairs in the order the emitter issued them:
\* those that left the emitter, then those still buffered in tree mode
Log == sent \o output_queue

\* the messages sent to destination d, in order
RECURSIVE ChannelOf(_, _)
ChannelOf(log, d) ==
    IF log = <<>> THEN <<>>
    ELSE (IF Head(log).dest = d THEN <<Head(log).msg>> ELSE <<>>)
         \o ChannelOf(Tail(log), d)

Channel(d) == ChannelOf(Log, d)

\* the payload slots delivered to d, in order of delivery
RECURSIVE PayloadsOf(_)
PayloadsOf(ch) ==
    IF ch = <<>> THEN <<>>
    ELSE (IF Head(ch).isPunctuation THEN <<>> ELSE Head(ch).slots)
         \o PayloadsOf(Tail(ch))

Payloads(d) == PayloadsOf(Channel(d))

\* the first position of the tuple of value v among the payloads of d, or 0
Pos(d, v) ==
    LET s == Payloads(d)
        hits == {i \in DOMAIN s : s[i].tuple.value = v}
    IN IF hits = {} THEN 0 ELSE CHOOSE i \in hits : \A j \in hits : i <= j

SeqToBag(s) ==
    [x \in {s[i] : i \in DOMAIN s} |-> Cardinality({i \in DOMAIN s : s[i] = x})]

NoOpenBatch == \A d \in Dests : batches_output[d] = Nullptr

(***************************************************************************)
(* C1. Per-destination watermark monotonicity: with watermarks handed in   *)
(* non-decreasing order, none of the assertions last_sent_wms[d] <= wm     *)
(* fails, and the watermarks of the envelopes sent to each destination are *)
(* non-decreasing, whatever the batch size and the tree mode.              *)
(***************************************************************************)
C1_WatermarkMonotone ==
    /\ assert_ok
    /\ \A d \in Dests :
         LET ch == Channel(d)
         IN /\ \A i, j \in DOMAIN ch :
                 i < j => getWatermark(ch[i]) <= getWatermark(ch[j])
            /\ ch # <<>> => last_sent_wms[d] = getWatermark(ch[Len(ch)])

\* a batch cut short, then a punctuation with a larger watermark, on one channel
C1_Witness ==
    \E d \in Dests :
      LET ch == Channel(d)
      IN \E i \in DOMAIN ch :
           /\ i < Len(ch)
           /\ ch[i].isBatch /\ ~ch[i].isPunctuation /\ getSize(ch[i]) < size
           /\ ch[i + 1].isPunctuation
           /\ getWatermark(ch[i]) < getWatermark(ch[i + 1])

(***************************************************************************)
(* C2. Per-key FIFO: of two tuples with the same key, emitted in that      *)
(* order, the second is delivered only after the first, to the same        *)
(* destination and to no other, with or without batching.                  *)
(***************************************************************************)
C2_PerKeyFifo ==
    \A i, j \in DOMAIN emitted :
      (i < j /\ emitted[i].tuple.key = emitted[j].tuple.key) =>
        \A d \in Dests :
          Pos(d, emitted[j].tuple.value) > 0 =>
            /\ Pos(d, emitted[i].tuple.value) > 0
            /\ Pos(d, emitted[i].tuple.value) < Pos(d, emitted[j].tuple.value)
            /\ \A d2 \in Dests \ {d} :
                 /\ Pos(d2, emitted[i].tuple.value) = 0
                 /\ Pos(d2, emitted[j].tuple.value) = 0

\* two tuples of one key delivered in two batches cut by a generated punctuation
C2_Witness ==
    /\ size >= 2
    /\ Len(emitted) >= 2
    /\ emitted[1].tuple.key = emitted[2].tuple.key
    /\ \E d \in Dests :
         LET ch == Channel(d)
         IN /\ Len(ch) = 3
            /\ ~ch[1].isPunctuation /\ ch[1].slots[1].tuple = emitted[1].tuple
            /\ ch[2].isPunctuation
            /\ ~ch[3].isPunctuation /\ ch[3].slots[1].tuple = emitted[2].tuple

(***************************************************************************)
(* C3. KeyBy destination: every payload goes to destination                *)
(* hash(key) mod K, whether sent or still in a batch, for every batch      *)
(* size, tree mode and execution mode; with integer keys the replica r     *)
(* only sees keys with key mod K = r.                                      *)
(***************************************************************************)
C3_KeyByDestination ==
    /\ \A p \in DOMAIN Log :
         ~Log[p].msg.isPunctuation =>
           \A i \in DOMAIN Log[p].msg.slots :
             Log[p].msg.slots[i].tuple.key % num_dests = Log[p].dest
    /\ \A d \in Dests :
         batches_output[d] # Nullptr =>
           \A i \in DOMAIN Deref(batches_output[d]).slots :
             Deref(batches_output[d]).slots[i].tuple.key % num_dests = d

\* two different keys that share a destination have both been delivered to it
C3_Witness ==
    \E d \in Dests :
      \E i, j \in DOMAIN Payloads(d) :
        /\ Payloads(d)[i].tuple.key # Payloads(d)[j].tuple.key
        /\ Payloads(d)[i].tuple.key = d
        /\ Payloads(d)[j].tuple.key = d + num_dests

(***************************************************************************)
(* C4. Batched emission equivalence: once no batch is open (always, for    *)
(* batch size 0; after a flush, for B > 0) every destination has been sent *)
(* the multiset of the (tuple, timestamp) pairs emitted for it, which      *)
(* depends on the emitted sequence alone and not on the batch size.        *)
(***************************************************************************)
ExpectedFor(d) ==
    SelectSeq([i \in DOMAIN emitted |->
                  [tuple |-> emitted[i].tuple, timestamp |-> emitted[i].timestamp]],
              LAMBDA x : x.tuple.key % num_dests = d)

DeliveredTo(d) ==
    [i \in DOMAIN Payloads(d) |->
        [tuple |-> Payloads(d)[i].tuple, timestamp |-> Payloads(d)[i].timestamp]]

C4_BatchedEquivalence ==
    NoOpenBatch =>
      \A d \in Dests : SeqToBag(DeliveredTo(d)) = SeqToBag(ExpectedFor(d))

\* a batched run, flushed, that sent a full batch of two tuples
C4_Witness ==
    /\ size = 2
    /\ NoOpenBatch
    /\ Len(emitted) = 2
    /\ \E p \in DOMAIN Log :
         /\ ~Log[p].msg.isPunctuation
         /\ Len(Log[p].msg.slots) = 2
         /\ Log[p].msg.slots[1].timestamp # Log[p].msg.slots[2].timestamp

(***************************************************************************)
(* What one step of the emitter adds to the log.                           *)
(***************************************************************************)
NewLog == SubSeq(Log', Len(Log) + 1, Len(Log'))

\* the tuples held in the open batch of d before the step
Held(d) ==
    IF batches_output[d] = Nullptr THEN {}
    ELSE {Deref(batches_output[d]).slots[i].tuple :
            i \in DOMAIN Deref(batches_output[d]).slots}

TuplesOf(m) == {m.slots[i].tuple : i \in DOMAIN m.slots}

(***************************************************************************)
(* C5. No punctuation overtakes a buffered payload: in every step that     *)
(* sends a punctuation to d, each tuple that was held in the open batch of *)
(* d has been sent to d before that punctuation; and after                 *)
(* propagate_punctuation no destination has an open batch.                 *)
(***************************************************************************)
C5_NoOvertaking ==
    [][ /\ \A p \in DOMAIN NewLog :
             NewLog[p].msg.isPunctuation =>
               \A t \in Held(NewLog[p].dest) :
                 \E q \in 1 .. (p - 1) :
                   /\ NewLog[q].dest = NewLog[p].dest
                   /\ ~NewLog[q].msg.isPunctuation
                   /\ t \in TuplesOf(NewLog[q].msg)
        /\ n_punct' # n_punct => \A d \in Dests : batches_output'[d] = Nullptr
      ]_vars

\* a batch cut short and the generated punctuation that follows it at once
C5_Witness ==
    /\ size >= 2
    /\ \E p \in DOMAIN Log :
         /\ p < Len(Log)
         /\ ~Log[p].msg.isPunctuation /\ getSize(Log[p].msg) < size
         /\ Log[p + 1].msg.isPunctuation /\ Log[p + 1].dest = Log[p].dest
         /\ Log[p + 1].msg.delete_counter = num_dests
         /\ n_punct = 0

(***************************************************************************)
(* C6. Punctuation-generation rule: when the check runs with the interval  *)
(* elapsed, exactly the destinations with no delivery in the sample get    *)
(* one punctuation each, carrying the watermark of the triggering          *)
(* envelope; a destination with deliveries gets none and has its counter   *)
(* reset (it then counts only what the triggering envelope delivers).      *)
(***************************************************************************)
CheckRuns ==
    /\ received_inputs' # received_inputs
    /\ execution_mode = "DEFAULT"
    /\ received_inputs' % DEFAULT_WM_AMOUNT = 0
    /\ since_punct >= DEFAULT_WM_INTERVAL_USEC

Quiet == {d \in Dests : delivered[d] = 0}

NewPunctuations(d) ==
    {p \in DOMAIN NewLog : NewLog[p].dest = d /\ NewLog[p].msg.isPunctuation}

NewPayloads(d) ==
    {p \in DOMAIN NewLog : NewLog[p].dest = d /\ ~NewLog[p].msg.isPunctuation}

C6_GenerationRule ==
    [][ CheckRuns =>
          \A d \in Dests :
            /\ d \in Quiet =>
                 /\ Cardinality(NewPunctuations(d)) = 1
                 /\ \A p \in NewPunctuations(d) :
                      getWatermark(NewLog[p].msg) = in_wm'
            /\ d \notin Quiet =>
                 /\ NewPunctuations(d) = {}
                 /\ delivered'[d] = Cardinality(NewPayloads(d))
      ]_vars

\* a generated punctuation that went to some destinations and not to all
C6_Witness ==
    /\ execution_mode = "DEFAULT"
    /\ n_punct = 0
    /\ \E p \in DOMAIN Log :
         /\ Log[p].msg.isPunctuation
         /\ Log[p].msg.delete_counter < num_dests

(***************************************************************************)
(* C7. Progress on quiet destinations: in DEFAULT mode, with inputs and    *)
(* time going on, every destination is eventually sent an envelope whose   *)
(* watermark is at least any watermark the emitter has received.           *)
(***************************************************************************)
C7_QuietProgress ==
    \A d \in Dests : \A w \in Watermarks :
      [](( execution_mode = "DEFAULT" /\ in_wm >= w) =>
           <>(last_sent_wms[d] >= w))

\* a destination with no delivery in the sample has been brought to the top
\* watermark while another destination has not
C7_Witness ==
    /\ execution_mode = "DEFAULT"
    /\ ~recording
    /\ \E d \in Dests : \E d2 \in Dests \ {d} :
         /\ last_sent_wms[d] = MaxWm
         /\ last_sent_wms[d2] < MaxWm
         /\ delivered[d] = 0
         /\ since_punct = 0

(***************************************************************************)
(* C8. Batch size bound: with batch size B > 0 an open batch holds between *)
(* 1 and B - 1 tuples after every operation, every batch sent holds        *)
(* between 1 and B tuples, and each slot keeps the timestamp and the       *)
(* watermark its tuple was emitted with; without batching there is no      *)
(* batch at all.                                                           *)
(***************************************************************************)
FromInput(sl) ==
    \E i \in DOMAIN emitted :
      /\ emitted[i].tuple = sl.tuple
      /\ emitted[i].timestamp = sl.timestamp
      /\ emitted[i].watermark = sl.watermark

C8_BatchSizeBound ==
    /\ \A d \in Dests :
         batches_output[d] # Nullptr =>
           /\ size > 0
           /\ getSize(Deref(batches_output[d])) >= 1
           /\ getSize(Deref(batches_output[d])) <= size - 1
           /\ \A i \in DOMAIN Deref(batches_output[d]).slots :
                FromInput(Deref(batches_output[d]).slots[i])
    /\ \A p \in DOMAIN Log :
         /\ Log[p].msg.isBatch <=> size > 0
         /\ Log[p].msg.isBatch =>
              /\ getSize(Log[p].msg) >= 1
              /\ getSize(Log[p].msg) <= size
         /\ ~Log[p].msg.isPunctuation =>
              \A i \in DOMAIN Log[p].msg.slots : FromInput(Log[p].msg.slots[i])

\* a full batch of B = 2 tuples emitted with different watermarks has been sent
C8_Witness ==
    /\ size = 2
    /\ \E p \in DOMAIN Log :
         /\ Log[p].msg.isBatch /\ ~Log[p].msg.isPunctuation
         /\ getSize(Log[p].msg) = size
         /\ Log[p].msg.slots[1].watermark < Log[p].msg.slots[2].watermark

(***************************************************************************)
(* C9. Reference count of shared punctuations: a punctuation envelope is   *)
(* enqueued once to each of its recipients and its reference counter is    *)
(* the number of recipients; a propagated punctuation goes to every        *)
(* destination.                                                            *)
(***************************************************************************)
Recipients(a) == {p \in DOMAIN Log : Log[p].msg.addr = a}

C9_PunctuationRefCount ==
    /\ \A p \in DOMAIN Log :
         Log[p].msg.isPunctuation =>
           /\ Log[p].msg.delete_counter = Cardinality(Recipients(Log[p].msg.addr))
           /\ \A q \in Recipients(Log[p].msg.addr) :
                /\ Log[q].msg = Log[p].msg
                /\ q # p => Log[q].dest # Log[p].dest
    /\ Cardinality({Log[p].msg.addr : p \in
                      {q \in DOMAIN Log : /\ Log[q].msg.isPunctuation
                                          /\ Log[q].msg.delete_counter = num_dests}})
         >= n_punct

\* a punctuation in batch form propagated to all the destinations
C9_Witness ==
    /\ n_punct > 0
    /\ \E p \in DOMAIN Log :
         /\ Log[p].msg.isPunctuation /\ Log[p].msg.isBatch
         /\ {Log[q].dest : q \in Recipients(Log[p].msg.addr)} = Dests

(***************************************************************************)
(* C10. Punctuations carry no payload: an envelope is marked as            *)
(* punctuation exactly when it was created to carry one (a single          *)
(* default-constructed tuple with timestamp 0), and every other envelope   *)
(* carries emitted tuples only.                                            *)
(***************************************************************************)
IsEmptySlot(sl) == sl.tuple = EmptyTuple /\ sl.timestamp = 0

C10_PunctuationNoPayload ==
    \A p \in DOMAIN Log :
      LET m == Log[p].msg
      IN /\ m.isPunctuation =>
              /\ Len(m.slots) = 1
              /\ IsEmptySlot(m.slots[1])
              /\ \A i \in DOMAIN emitted : emitted[i].tuple # m.slots[1].tuple
         /\ ~m.isPunctuation =>
              \A i \in DOMAIN m.slots :
                \E j \in DOMAIN emitted : emitted[j].tuple = m.slots[i].tuple

\* a channel that carries a payload envelope and a punctuation in single form
C10_Witness ==
    /\ size = 0
    /\ \E d \in Dests :
         \E i, j \in DOMAIN Channel(d) :
           /\ Channel(d)[i].isPunctuation
           /\ ~Channel(d)[j].isPunctuation

(***************************************************************************)
(* C12. No pending output at teardown: when the emitter is destroyed after *)
(* the end of the stream, the assertions of the destructor hold (no        *)
(* message is buffered in the output queue, no destination has an open     *)
(* batch) and every tuple emitted through the emitter has left it, to the  *)
(* destination of its key.                                                 *)
(***************************************************************************)
SentTo(d) ==
    LET s == PayloadsOf(ChannelOf(sent, d))
    IN [i \in DOMAIN s |-> [tuple |-> s[i].tuple, timestamp |-> s[i].timestamp]]

Shells(q) == IF q = Nullptr THEN 0 ELSE Deref(q)

C13_FreeListTornDown ==
    /\ Shells(queue) = pushed - (popped + deleted)
    /\ phase = "destroyed" =>
         /\ queue = Nullptr
         /\ pushed = popped + deleted
    /\ phase # "destroyed" => queue # Nullptr /\ deleted = 0

\* a batching emitter destroyed with a recycled shell in its queue, after
\* another shell had been taken again
C13_Witness ==
    /\ phase = "destroyed"
    /\ size > 0
    /\ popped > 0
    /\ deleted > 0

(***************************************************************************)
(* C11  Termination.  With finite sources and a fair scheduler run()       *)
(* returns; a replica has terminated only after the end marker of every    *)
(* upstream channel was consumed and nothing of its input is left; no      *)
(* thread waits for ever on a full queue or on an upstream that waits.     *)
(***************************************************************************)
Drained(g, r) ==
    \A l \in InLinks(g, r) :
        g.closed[l] /\ g.channels[l] = <<>> /\ g.pending[l] = <<>>

TerminatedAfterInput ==
    \A r \in ActiveReplicas(graph) :
        graph.state[r] = "terminated" =>
            IF r[1] = "source" THEN graph.generated[r] = Len(Stream)
            ELSE Drained(graph, r)

C11_Termination ==
    /\ [](graph.run_pc # "none" => TerminatedAfterInput)
    /\ <>(graph.run_pc = "returned")

\* run() has returned although a thread had to wait on a full queue
C11_Witness ==
    /\ graph.run_pc = "returned"
    /\ graph.parallelism["sink"] = 2
    /\ \A r \in ActiveReplicas(graph) : graph.state[r] = "terminated"
    /\ graph.received[<<"sink", 0>>] + graph.received[<<"sink", 1>>] > 0

(***************************************************************************)
(* C14  The result does not depend on parallelism, batching or mode: when  *)
(* run() has returned, the payloads received by the sinks are, as a        *)
(* multiset, the stream of every source replica taken through the functors *)
(* of its branch, and the sum accumulated at the sinks is their sum,       *)
(* whatever degrees, batch size and mode the graph was assembled with.     *)
(***************************************************************************)
\* what one tuple of a source becomes on its way to the sink
ResultOf(t) ==
    IF branch(splitting_func(t)) = "map" THEN <<Map_Functor(t)>>
    ELSE IF Filter_Functor_KB(t) THEN <<t>> ELSE <<>>

RECURSIVE ResultsFrom(_)
ResultsFrom(n) ==
    IF n > Len(Stream) THEN <<>> ELSE ResultOf(Stream[n]) \o ResultsFrom(n + 1)

RECURSIVE Copies(_, _)
Copies(b, k) == IF k = 0 THEN EmptyBag ELSE b (+) Copies(b, k - 1)

RECURSIVE SumOf(_)
SumOf(s) == IF s = <<>> THEN 0 ELSE Head(s).value + SumOf(Tail(s))

ExpectedBag(g) == Copies(SeqToBag(ResultsFrom(1)), g.parallelism["source"])
ExpectedSum(g) == g.parallelism["source"] * SumOf(ResultsFrom(1))

Sinks(g) == {r \in ActiveReplicas(g) : r[1] = "sink"}

RECURSIVE ReceivedBy(_, _)
ReceivedBy(g, rs) ==
    IF rs = {} THEN EmptyBag
    ELSE LET r == CHOOSE x \in rs : TRUE
         IN  g.sink_bag[r] (+) ReceivedBy(g, rs \ {r})

C14_ResultIndependent ==
    graph.run_pc = "returned" =>
        /\ ReceivedBy(graph, Sinks(graph)) = ExpectedBag(graph)
        /\ graph.global_sum = ExpectedSum(graph)
        /\ graph.assert_ok

\* a batched run with two Filter replicas has returned: each replica was
\* left with an open batch, and results of both branches are at the sink
C14_Witness ==
    /\ graph.run_pc = "returned"
    /\ graph.batch = 2
    /\ graph.parallelism["filter"] = 2
    /\ graph.global_sum > 0
    /\ \E t \in DOMAIN ReceivedBy(graph, Sinks(graph)) : branch(splitting_func(t)) = "filter"
    /\ \E t \in DOMAIN ReceivedBy(graph, Sinks(graph)) : t.value > stream_len

(***************************************************************************)
(* C15  Determinism under DETERMINISTIC mode: whatever the interleaving of *)
(* the threads, each sink has received the sequence it receives in the run *)
(* of one fixed schedule of the same graph, and each replica has consumed  *)
(* the merge of its channels in non-decreasing (timestamp, channel index)  *)
(* order.                                                                  *)
(***************************************************************************)
\* one fixed schedule: the first thread that can take a step takes it
Scheduled(g) ==
    IF CanStart(g) THEN started(g)
    ELSE IF \E r \in Replicas : CanUnblock(g, r)
    THEN unblocked(g, CHOOSE r \in Replicas : CanUnblock(g, r))
    ELSE IF \E l \in Links : CanConsume(g, l)
    THEN consumed(g, CHOOSE l \in Links : CanConsume(g, l))
    ELSE IF \E r \in Replicas : CanTerminate(g, r)
    THEN terminated(g, CHOOSE r \in Replicas : CanTerminate(g, r))
    ELSE IF \E s \in Replicas : CanGenerate(g, s)
    THEN generated(g, CHOOSE s \in Replicas : CanGenerate(g, s))
    ELSE IF \E s \in Replicas : CanSourceEnd(g, s)
    THEN source_ended(g, CHOOSE s \in Replicas : CanSourceEnd(g, s))
    ELSE returned(g)

RECURSIVE RunOf(_)
RunOf(g) == IF Runnable(g) THEN RunOf(Scheduled(g)) ELSE g

ReferenceRun(g) == RunOf(Assembled(g.mode, g.parallelism, g.batch))

InMergeOrder(s) ==
    \A i, j \in DOMAIN s : i < j => ~ Before(s[j], s[i])

C15_Deterministic ==
    graph.run_pc # "none" /\ graph.mode = "DETERMINISTIC" =>
        /\ \A r \in ActiveReplicas(graph) : InMergeOrder(graph.merged[r])
        /\ graph.run_pc = "returned" =>
               \A r \in Sinks(graph) :
                   graph.sink_log[r] = ReferenceRun(graph).sink_log[r]

\* a DETERMINISTIC run of two source replicas has returned: the Filter met
\* equal timestamps on its two channels, the sink merged its two channels
C15_Witness ==
    /\ graph.run_pc = "returned"
    /\ graph.mode = "DETERMINISTIC"
    /\ graph.parallelism["source"] = 2
    /\ \E i, j \in DOMAIN graph.merged[<<"filter", 0>>] :
          /\ i < j
          /\ graph.merged[<<"filter", 0>>][i][1] = graph.merged[<<"filter", 0>>][j][1]
          /\ graph.merged[<<"filter", 0>>][i][2] < graph.merged[<<"filter", 0>>][j][2]
    /\ \E i, j \in DOMAIN graph.merged[<<"sink", 0>>] :
          graph.merged[<<"sink", 0>>][i][2] # graph.merged[<<"sink", 0>>][j][2]
    /\ Len(graph.sink_log[<<"sink", 0>>]) = 2 * Len(ResultsFrom(1))

(***************************************************************************)
(* C20  The current input watermark of a replica is the minimum over its   *)
(* input channels of the last watermark received on each, taken after the  *)
(* update for the input being handled; the watermarks of a channel never   *)
(* decrease, nor does the current watermark; every tuple a replica emits   *)
(* carries the current watermark.                                          *)
(***************************************************************************)
Consumers(g) == {r \in ActiveReplicas(g) : r[1] # "source"}

MinimumAfterUpdate ==
    /\ graph.wm_ok
    /\ \A r \in Consumers(graph) :
           graph.cur_wm[r] = MinOver(graph.wms, InLinks(graph, r))

NeverDecreases ==
    /\ \A l \in Links : graph'.wms[l] >= graph.wms[l]
    /\ \A r \in Replicas : graph'.cur_wm[r] >= graph.cur_wm[r]

C20_CurrentWatermark ==
    /\ [](graph.run_pc # "none" => MinimumAfterUpdate)
    /\ [][graph.run_pc # "none" => NeverDecreases]_allvars

\* the Filter has two channels whose last watermarks differ; its current
\* watermark is the smaller one, and a tuple it emitted carries a watermark
C20_Witness ==
    /\ graph.run_pc = "running"
    /\ graph.parallelism["source"] = 2
    /\ \E a, b \in InLinks(graph, <<"filter", 0>>) :
          /\ 0 < graph.wms[a] /\ graph.wms[a] < graph.wms[b]
          /\ graph.cur_wm[<<"filter", 0>>] = graph.wms[a]
    /\ \E l \in OutLinks(graph, <<"filter", 0>>) :
          \E i \in DOMAIN graph.channels[l] :
              /\ graph.channels[l][i].kind = "data"
              /\ graph.channels[l][i].wm > 0

(***************************************************************************)
(* C16: thread-count law of the assembly.  Once the assembly of a test is  *)
(* over, getNumThreads() is the sum of the parallelisms of the operators   *)
(* that were not chained, which is the check_degree the test computes: an  *)
(* operator is left out only if it was chained onto the last operator of   *)
(* its MultiPipe with equal parallelism and without keyby; a keyby         *)
(* operator and the first operator after a split or a merge always count.  *)
(***************************************************************************)
IsAssembled(pg) == pg # NotBuilt /\ pg.pc > Len(Assembly(pg.test))

RECURSIVE SumDegrees(_, _)
SumDegrees(d, ops) ==
    IF ops = {} THEN 0
    ELSE LET op == CHOOSE o \in ops : TRUE
         IN  d[op] + SumDegrees(d, ops \ {op})

\* the first chain on a MultiPipe that a split or a merge yielded
FirstOnPipe(test, i) ==
    LET c == Assembly(test)[i]
    IN  /\ c.method \in {"chain", "chain_sink"}
        /\ \A j \in 1 .. i - 1 :
              Assembly(test)[j].pipe = c.pipe
                  => Assembly(test)[j].method \notin {"add_source", "chain"}

AlwaysCounted(test) ==
    {Assembly(test)[i].op : i \in {k \in DOMAIN Assembly(test) :
        \/ Assembly(test)[k].method = "add_source"
        \/ Assembly(test)[k].keyby
        \/ FirstOnPipe(test, k)}}

C16_ThreadCount ==
    IsAssembled(pipegraph) =>
        /\ getNumThreads(pipegraph) = check_degree(pipegraph.test, pipegraph.degree)
        /\ getNumThreads(pipegraph) =
              SumDegrees(pipegraph.degree,
                         OperatorsOf(pipegraph.test) \ pipegraph.chained)
        /\ pipegraph.chained \cap AlwaysCounted(pipegraph.test) = {}

\* test_split_gpu_kb_4 assembled with all degrees equal: map1 and the sinks
\* are chained, the keyby map2 is not
C16_Witness ==
    /\ IsAssembled(pipegraph)
    /\ pipegraph.test = "test_split_gpu_kb_4"
    /\ \A op \in OperatorsOf(pipegraph.test) : pipegraph.degree[op] = 2
    /\ pipegraph.chained = {"map1", "sink1", "sink2"}
    /\ getNumThreads(pipegraph) = 8

(***************************************************************************)
(* C17: window ownership in Parallel_Windows.  Replica i of a              *)
(* Parallel_Windows of parallelism P built by the public constructor has   *)
(* window length win_len, slide P * slide_len, first window i and stride   *)
(* P; every window w of the (win_len, slide_len) windowing belongs to      *)
(* exactly one replica, replica w mod P, and starts there where window w   *)
(* of the sequential windowing starts; the windows a replica opens and     *)
(* fires are those of its own that hold an input it received.              *)
(***************************************************************************)
MaxWid == Max(MaxTuples, MaxTs) + 1

\* window w of the sequential windowing
SeqStart(op, w) == w * op.slide_len
SeqHolds(op, w, x) == SeqStart(op, w) <= x /\ x < SeqStart(op, w) + op.win_len

Owners(op, w) ==
    {i \in DOMAIN op.replicas :
        \E lwid \in 0 .. MaxWid : gwid(op.replicas[i], lwid) = w}

ConfiguredAsOwner(op) ==
    \A i \in DOMAIN op.replicas :
        op.replicas[i] = Window_Replica(op.win_len, op.parallelism * op.slide_len,
                                        op.lateness, op.winType, "SEQ",
                                        i, op.parallelism)

OwnedOnce(op) ==
    \A w \in 0 .. MaxWid :
        /\ Owners(op, w) = {w % op.parallelism}
        /\ \A lwid \in 0 .. MaxWid :
              LET r == op.replicas[w % op.parallelism]
              IN  gwid(r, lwid) = w => start(r, lwid) = SeqStart(op, w)

\* the positions of the inputs a replica received and did not ignore
Received(w, i) ==
    {IF w.op.winType = "CB" THEN w.stream[n].id ELSE w.stream[n].ts :
        n \in {m \in 1 .. w.rep[i].pos :
                  /\ w.stream[m].kind = "tuple"
                  /\ \/ w.op.winType = "CB"
                     \/ w.stream[m].ts >= w.stream[m].wm - w.op.lateness}}

Seen(w, i) ==
    {o.gwid : o \in w.rep[i].open}
        \cup {w.rep[i].fired[n].window.gwid : n \in DOMAIN w.rep[i].fired}

OpensItsOwn(w) ==
    \A i \in DOMAIN w.op.replicas :
        /\ Seen(w, i) = {g \in 0 .. MaxWid :
                            /\ g % w.op.parallelism = i
                            /\ \E x \in Received(w, i) : SeqHolds(w.op, g, x)}
        /\ \A o \in w.rep[i].open : o.start = SeqStart(w.op, o.gwid)

C17_WindowOwnership ==
    win # NotBuilt =>
        /\ getInputRoutingMode = "BROADCAST"
        /\ ConfiguredAsOwner(win.op)
        /\ OwnedOnce(win.op)
        /\ OpensItsOwn(win)

\* two replicas, slide 1 and length 1: replica 1 opened its windows 1 and 3
\* (its own first and second) where the sequential windows 1 and 3 start,
\* and dropped an input of a window of replica 0
C17_Witness ==
    /\ win # NotBuilt
    /\ win.op.parallelism = 2 /\ win.op.slide_len = 1 /\ win.op.win_len = 1
    /\ win.op.winType = "TB"
    /\ \E o \in win.rep[1].open : o.gwid = 1 /\ o.start = 1 /\ o.lwid = 0
    /\ \E o \in win.rep[1].open : o.gwid = 3 /\ o.start = 3 /\ o.lwid = 1
    /\ win.rep[1].dropped > 0

(***************************************************************************)
(* C18: window count law.  Under CB windows of length W and slide S, once  *)
(* every replica received the first N tuples of the key, the windows fired *)
(* by the P replicas together number floor((N - W) / S) + 1 if N >= W and  *)
(* 0 otherwise, for one replica as for several; each of them fired on the  *)
(* arrival of its W-th tuple.                                              *)
(***************************************************************************)
CountLaw(N, W, S) == IF N >= W THEN (N - W) \div S + 1 ELSE 0

TuplesReceived(w, i) ==
    Cardinality({n \in 1 .. w.rep[i].pos : w.stream[n].kind = "tuple"})

RECURSIVE TotalFired(_, _)
TotalFired(w, is) ==
    IF is = {} THEN 0
    ELSE LET i == CHOOSE x \in is : TRUE
         IN  Len(w.rep[i].fired) + TotalFired(w, is \ {i})

FiredOnLastTuple(w) ==
    \A i \in DOMAIN w.op.replicas :
        \A n \in DOMAIN w.rep[i].fired :
            LET f == w.rep[i].fired[n]
            IN  /\ f.window.count = w.op.win_len
                /\ f.at = f.window.start + w.op.win_len - 1

C18_WindowCountLaw ==
    (win # NotBuilt /\ win.op.winType = "CB") =>
        /\ FiredOnLastTuple(win)
        /\ \A N \in 0 .. MaxTuples :
              (\A i \in DOMAIN win.op.replicas : TuplesReceived(win, i) = N)
                  => TotalFired(win, DOMAIN win.op.replicas)
                        = CountLaw(N, win.op.win_len, win.op.slide_len)

\* W = 2, S = 1, two replicas, the stream of four tuples ended and received:
\* three windows fired, two by replica 0 and one by replica 1
C18_Witness ==
    /\ win # NotBuilt /\ win.op.winType = "CB"
    /\ win.op.win_len = 2 /\ win.op.slide_len = 1 /\ win.op.parallelism = 2
    /\ win.ended
    /\ \A i \in DOMAIN win.op.replicas : win.rep[i].pos = MaxTuples + 1
    /\ Len(win.rep[0].fired) = 2 /\ Len(win.rep[1].fired) = 1

(***************************************************************************)
(* C19: no late firings under TB.  A window [a, b) fires at most once; its *)
(* result is emitted only when the replica's current input watermark has   *)
(* reached b + lateness; the windows of the key fire in non-decreasing     *)
(* order of their ends; a fired window is destroyed: it is not open again, *)
(* and its result is never changed.                                        *)
(***************************************************************************)
FiresOnce(w) ==
    \A i, j \in DOMAIN w.op.replicas :
        \A n \in DOMAIN w.rep[i].fired, m \in DOMAIN w.rep[j].fired :
            w.rep[i].fired[n].window.gwid = w.rep[j].fired[m].window.gwid
                => i = j /\ n = m

FiresWhenDue(w) ==
    \A i \in DOMAIN w.op.replicas :
        \A n \in DOMAIN w.rep[i].fired :
            LET f == w.rep[i].fired[n]
            IN  /\ f.wm >= f.window.end + w.op.lateness
                /\ f.wm <= w.rep[i].cur_wm

FiresInEndOrder(w) ==
    \A i \in DOMAIN w.op.replicas :
        \A n, m \in DOMAIN w.rep[i].fired :
            n < m => w.rep[i].fired[n].window.end <= w.rep[i].fired[m].window.end

Destroyed(w) ==
    \A i \in DOMAIN w.op.replicas :
        \A n \in DOMAIN w.rep[i].fired :
            \A o \in w.rep[i].open : o.gwid # w.rep[i].fired[n].window.gwid

FiredKept ==
    \A i \in DOMAIN win.op.replicas :
        /\ Len(win.rep[i].fired) <= Len(win'.rep[i].fired)
        /\ SubSeq(win'.rep[i].fired, 1, Len(win.rep[i].fired)) = win.rep[i].fired

C19_NoLateFirings ==
    /\ []((win # NotBuilt /\ win.op.winType = "TB") =>
             /\ FiresOnce(win)
             /\ FiresWhenDue(win)
             /\ FiresInEndOrder(win)
             /\ Destroyed(win))
    /\ [][(win # NotBuilt /\ win.op.winType = "TB") => FiredKept]_allvars

\* lateness 1, sliding windows: a replica fired a window on a watermark
\* short of infinity, then ignored a tuple that falls into the fired window
\* while another window stays open
C19_Witness ==
    /\ win # NotBuilt /\ win.op.winType = "TB"
    /\ win.op.lateness = 1 /\ win.op.win_len = 2 /\ win.op.slide_len = 1
    /\ \E i \in DOMAIN win.op.replicas :
          /\ Len(win.rep[i].fired) >= 1
          /\ win.rep[i].open # {}
          /\ win.rep[i].cur_wm < Infinity
          /\ win.rep[i].ignored > 0
          /\ win.rep[i].pos > 0
          /\ LET e == win.stream[win.rep[i].pos]
             IN  /\ e.kind = "tuple"
                 /\ \E n \in DOMAIN win.rep[i].fired :
                       /\ win.rep[i].fired[n].window.start <= e.ts
                       /\ e.ts < win.rep[i].fired[n].window.end

(***************************************************************************)
(* C21: the outputs of a FlatMap inherit the time of the input.  Every     *)
(* result pushed through the Shipper was handed to the emitter with the    *)
(* timestamp and the watermark of the last setShipperParameters, those of  *)
(* the input the functor was called for, and getNumDelivered() is the      *)
(* number of the push calls made so far.                                   *)
(***************************************************************************)
InheritsTime(s) ==
    \A n \in DOMAIN s.emit_calls :
        LET input == (n - 1) \div FlatMap_Functor_pushes + 1
        IN  /\ input \in DOMAIN s.parameters
            /\ s.emit_calls[n].timestamp = s.parameters[input].timestamp
            /\ s.emit_calls[n].watermark = s.parameters[input].watermark
            /\ s.emit_calls[n].tuple.value = input

C21_ShipperInheritsTime ==
    shipper # NotBuilt =>
        /\ InheritsTime(shipper)
        /\ getNumDelivered(shipper) = shipper.pushes
        /\ getNumDelivered(shipper) = Len(shipper.emit_calls)

\* two inputs of different timestamp and watermark, three pushes for each
C21_Witness ==
    /\ shipper # NotBuilt
    /\ shipper.pc = "idle"
    /\ getNumDelivered(shipper) = 2 * FlatMap_Functor_pushes
    /\ shipper.emit_calls[1].timestamp # shipper.emit_calls[4].timestamp
    /\ shipper.emit_calls[1].watermark # shipper.emit_calls[4].watermark

(***************************************************************************)
(* C22: the end of the stream at the Sink.  Each replica of the Sink calls *)
(* the functor with a tuple once for each payload it received, and with    *)
(* the empty optional once, when it terminates after the last payload of   *)
(* its inputs; no call with a tuple follows the call without.              *)
(***************************************************************************)
CallsWith(g, r, present) ==
    Cardinality({n \in DOMAIN g.functor_calls[r] : g.functor_calls[r][n] = present})

SinkCalls(g, r) ==
    /\ CallsWith(g, r, TRUE) = g.payloads_in[r]
    /\ CallsWith(g, r, TRUE) = g.received[r]
    /\ CallsWith(g, r, FALSE) = (IF g.state[r] = "terminated" THEN 1 ELSE 0)
    /\ \A n \in DOMAIN g.functor_calls[r] :
          ~ g.functor_calls[r][n] => n = Len(g.functor_calls[r])
    /\ g.state[r] = "terminated" => Drained(g, r)

C22_SinkEndOfStream ==
    graph.run_pc # "none" => \A r \in Sinks(graph) : SinkCalls(graph, r)

\* two replicas of the Sink, both called without a tuple, after one and
\* after several tuples
C22_Witness ==
    /\ graph.run_pc = "returned"
    /\ graph.parallelism["sink"] = 2
    /\ \A r \in Sinks(graph) :
          /\ graph.functor_calls[r][Len(graph.functor_calls[r])] = FALSE
          /\ graph.received[r] >= 1
    /\ \E r \in Sinks(graph) : graph.received[r] >= 2

(***************************************************************************)
(* C23: configuration errors of Parallel_Windows.  The constructor called  *)
(* with parallelism 0, window length 0 or slide 0 writes a diagnostic and  *)
(* ends the process before it creates a replica; with any other arguments  *)
(* it returns with as many replicas as the parallelism.                    *)
(***************************************************************************)
ZeroArgument(a) == a.parallelism = 0 \/ a.win_len = 0 \/ a.slide_len = 0

ConstructorExits ==
    (win # NotBuilt /\ win.pc = "constructing") =>
        /\ win'.pc = (IF ZeroArgument(win.args) THEN "exited" ELSE "running")
        /\ win'.op.parallelism = win.args.parallelism
        /\ win'.op.win_len = win.args.win_len
        /\ win'.op.slide_len = win.args.slide_len

C23_ConfigurationErrors ==
    /\ []((win # NotBuilt /\ win.pc = "exited") =>
             /\ ZeroArgument(win.args)
             /\ win.op.cerr # ""
             /\ win.op.replicas = << >>)
    /\ []((win # NotBuilt /\ win.pc = "running") =>
             /\ ~ ZeroArgument(win.op)
             /\ DOMAIN win.op.replicas = 0 .. win.op.parallelism - 1
             /\ Cardinality(DOMAIN win.op.replicas) = win.op.parallelism)
    /\ [][ConstructorExits]_allvars

\* the slide alone is zero: the process has ended without a replica
C23_Witness ==
    /\ win # NotBuilt /\ win.pc = "exited"
    /\ win.args.parallelism = 2 /\ win.args.win_len = 1 /\ win.args.slide_len = 0
    /\ win.op.replicas = << >>

(***************************************************************************)
(* C24: lateness is rejected for CB.  withLateness called on an            *)
(* FFAT_AggregatorGPU_Builder whose window type is not TB (CB, the default *)
(* before any window configuration included) writes a diagnostic, ends the *)
(* process and does not record the lateness; with window type TB the       *)
(* lateness given is recorded.                                             *)
(***************************************************************************)
Calling(method) ==
    /\ builder # NotBuilt /\ builder.pc = "open"
    /\ builder'.last.method = method
    /\ builder'.n_calls = builder.n_calls + 1

LatenessCall ==
    Calling("withLateness") =>
        IF builder.winType # "TB"
        THEN /\ builder'.pc = "exited"
             /\ builder'.cerr = "WindFlow Error: lateness can be set only for time-based windows"
             /\ builder'.lateness = builder.lateness
        ELSE /\ builder'.pc = "open"
             /\ builder'.lateness = builder'.last.args[1]

C24_LatenessRejectedForCB ==
    /\ [](builder # NotBuilt => (builder.winType # "TB" => builder.lateness = 0))
    /\ [][LatenessCall]_allvars

\* withLateness as the first call, before any window configuration
C24_Witness ==
    /\ builder # NotBuilt /\ builder.pc = "exited"
    /\ builder.last = [method |-> "withLateness", args |-> <<1>>]
    /\ builder.n_calls = 1
    /\ builder.winType = "CB" /\ builder.lateness = 0

\* withLateness after withTBWindows: the lateness is recorded
LatenessRecorded ==
    /\ builder # NotBuilt /\ builder.pc = "open"
    /\ builder.last = [method |-> "withLateness", args |-> <<1>>]
    /\ builder.winType = "TB" /\ builder.lateness = 1

(***************************************************************************)
(* C25: quantum divisibility.  For every window length, slide and quantum  *)
(* given to withTBWindows, the call either ends the process with the       *)
(* diagnostic of the configuration error, or returns with window type TB   *)
(* and window length and slide multiples of the quantum; it is rejected    *)
(* whenever one of them is not a multiple of the quantum.                  *)
(***************************************************************************)
Multiple(x, q) == \E k \in 0 .. x : x = k * q

Rejected(b) ==
    /\ b.pc = "exited"
    /\ b.cerr = "WindFlow Error: window length and slide must be divisible by the quantum parameter"

TBWindowsCall ==
    Calling("withTBWindows") =>
        LET w == builder'.last.args[1]
            s == builder'.last.args[2]
            q == builder'.last.args[3]
        IN  /\ \/ Rejected(builder')
               \/ /\ builder'.pc = "open"
                  /\ builder'.winType = "TB"
                  /\ builder'.win_len = w /\ builder'.slide_len = s
                  /\ Multiple(w, q) /\ Multiple(s, q)
            /\ (~ Multiple(w, q) \/ ~ Multiple(s, q)) => Rejected(builder')

C25_QuantumDivisibility == [][TBWindowsCall]_allvars

\* the same for the calls with a quantum of at least one
C25_PositiveQuantum ==
    [][(Calling("withTBWindows") /\ builder'.last.args[3] > 0) => TBWindowsCall]_allvars

\* the process was killed in withTBWindows called with quantum zero
C25_Killed ==
    /\ builder # NotBuilt /\ builder.pc = "killed"
    /\ builder.last = [method |-> "withTBWindows", args |-> <<1, 1, 0>>]
    /\ builder.cerr = ""

(***************************************************************************)
(* C26: the key extractor is required for a parallel FFAT aggregator.      *)
(* build() of FFAT_AggregatorGPU_Builder writes its diagnostic and ends    *)
(* the process if and only if the parallelism is above one and withKeyBy   *)
(* was never called, in whatever order the options were called; otherwise  *)
(* it hands the fields of the builder to the operator.                     *)
(***************************************************************************)
BuildCall ==
    (builder # NotBuilt /\ builder.pc = "open" /\ IsFFAT(builder)
        /\ builder'.last.method = "build") =>
        IF builder.parallelism > 1 /\ ~ builder.keyby_called
        THEN /\ builder'.pc = "exited"
             /\ builder'.cerr = "WindFlow Error: FFAT_Aggregator_GPU with parallelism > 1 requires a key extractor"
             /\ builder'.op.type = "none"
        ELSE /\ builder'.pc = "built"
             /\ builder'.cerr = ""
             /\ builder'.op.type = "FFAT_Aggregator_GPU"
             /\ builder'.op.parallelism = builder.parallelism

KeyExtractorMissing ==
    /\ builder # NotBuilt /\ builder.pc = "exited"
    /\ builder.last.method = "build"
    /\ builder.parallelism = 2 /\ ~ builder.keyby_called

(***************************************************************************)
(* C27: withKeyBy switches the input routing.  The Map_GPU or Filter_GPU   *)
(* built has input routing mode KEYBY if withKeyBy was called anywhere in  *)
(* the chain of the builder and FORWARD otherwise; withName and            *)
(* withParallelism never change the routing mode.                          *)
(***************************************************************************)
IsMapOrFilter(b) == b.kind \in {"MapGPU_Builder", "FilterGPU_Builder"}

RoutingOf(b) == IF b.keyby_called THEN "KEYBY" ELSE "FORWARD"

RoutingKept ==
    (Calling("withName") \/ Calling("withParallelism")) =>
        builder'.input_routing_mode = builder.input_routing_mode

C27_KeyBySwitchesRouting ==
    /\ []((builder # NotBuilt /\ IsMapOrFilter(builder)) =>
             /\ builder.input_routing_mode = RoutingOf(builder)
             /\ builder.pc = "built" =>
                   /\ builder.op.type \in {"Map_GPU", "Filter_GPU"}
                   /\ OperatorRoutingMode(builder.op) = RoutingOf(builder))
    /\ [][RoutingKept]_allvars

\* withKeyBy, then withName and withParallelism, then build()
C27_Witness ==
    /\ builder # NotBuilt /\ builder.pc = "built"
    /\ builder.kind = "FilterGPU_Builder"
    /\ builder.n_calls = 3
    /\ builder.name = "op" /\ builder.parallelism = 2
    /\ OperatorRoutingMode(builder.op) = "KEYBY"

(***************************************************************************)
(* C28: conservation in the KeyBy emitter.  Once emit / emit_inplace calls *)
(* have been followed by flush (no batch is open), every emitted tuple has *)
(* been sent to exactly one destination exactly once, the number of        *)
(* payloads delivered over all destinations is the number of emit calls,   *)
(* and the punctuations carry no payload.                                  *)
(***************************************************************************)
CountIn(slots, t) == Cardinality({i \in DOMAIN slots : slots[i].tuple = t})

\* how often the tuple t travels in the messages of log, punctuations included
RECURSIVE Occurrences(_, _)
Occurrences(log, t) ==
    IF log = <<>> THEN 0
    ELSE CountIn(Head(log).msg.slots, t) + Occurrences(Tail(log), t)

RECURSIVE LogTo(_, _)
LogTo(log, d) ==
    IF log = <<>> THEN <<>>
    ELSE (IF Head(log).dest = d THEN <<Head(log)>> ELSE <<>>)
         \o LogTo(Tail(log), d)

DestinationsOf(t) == {d \in Dests : Occurrences(LogTo(Log, d), t) > 0}

\* the payloads delivered to the destinations i, i + 1, ...
RECURSIVE PayloadsDeliveredFrom(_)
PayloadsDeliveredFrom(i) ==
    IF i = num_dests THEN 0
    ELSE Len(Payloads(i)) + PayloadsDeliveredFrom(i + 1)

\* the slots of all messages, punctuations included, that hold a tuple
RECURSIVE TuplesCarried(_)
TuplesCarried(log) ==
    IF log = <<>> THEN 0
    ELSE Cardinality({i \in DOMAIN Head(log).msg.slots :
                         Head(log).msg.slots[i].tuple # EmptyTuple})
         + TuplesCarried(Tail(log))

C28_Conservation ==
    NoOpenBatch =>
      /\ \A i \in DOMAIN emitted :
           /\ Cardinality(DestinationsOf(emitted[i].tuple)) = 1
           /\ Occurrences(Log, emitted[i].tuple) = 1
      /\ PayloadsDeliveredFrom(0) = Len(emitted)
      /\ Len(emitted) = received_inputs
      /\ TuplesCarried(Log) = Len(emitted)

\* two emit calls to two destinations with batches, a punctuation generated
\* in between, then flush
C28_Witness ==
    /\ size >= 2 /\ NoOpenBatch
    /\ Len(emitted) = 2 /\ n_punct = 0
    /\ dest_of(emitted[1].tuple) # dest_of(emitted[2].tuple)
    /\ \E p \in DOMAIN Log : Log[p].msg.isPunctuation
    /\ PayloadsDeliveredFrom(0) = 2

(***************************************************************************)
(* C29: tree mode is a pure redirection.  For the same sequence of         *)
(* operations, an emitter in tree mode sends nothing directly and appends  *)
(* to its output queue exactly the (envelope, destination) pairs that the  *)
(* same emitter with tree mode off would have passed to ff_send_out_to, in *)
(* the same order, and all other emitter state (delivery counters, last    *)
(* sent watermarks, batch buffers) evolves identically.                    *)
(*                                                                         *)
(* Direct(e) is the emitter with tree mode off that has sent what e has    *)
(* queued.  The two start alike, and every step of the tree-mode emitter   *)
(* is matched by the same operation, with the same arguments, on the       *)
(* direct one: the two runs stay paired operation by operation.            *)
(***************************************************************************)
Direct(e) ==
    [e EXCEPT !.useTreeMode = FALSE, !.sent = e.sent \o e.output_queue,
              !.output_queue = <<>>]

SameAsDirect(k, wm) ==
    LET in == Input(k, wm)
        output == [allocateSingle_t(in.tuple, in.identifier, in.timestamp, wm,
                                    NewAddress(Self))
                      EXCEPT !.recycler = "upstream"]
    IN /\ Emit(k, wm) =>
            Direct(Self)' = emit(Direct(Self), in.tuple, in.identifier,
                                 in.timestamp, wm)
       /\ EmitInplace(k, wm) =>
            Direct(Self)' = emit_inplace(upstream(Direct(Self)), output)
       /\ PropagatePunctuation(wm) =>
            Direct(Self)' = propagate_punctuation(Direct(Self), wm)

Redirection ==
    useTreeMode =>
      /\ sent' = sent
      /\ \A k \in Keys, wm \in Watermarks : SameAsDirect(k, wm)
      /\ Flush => Direct(Self)' = flush(Direct(Self))
      /\ Tick => Direct(Self)' = [Direct(Self) EXCEPT !.since_punct = @ + 1]

C29_TreeModeRedirection ==
    /\ [](useTreeMode => sent = <<>>)
    /\ [](Len(Log) = 0 => Direct(Self) = [Self EXCEPT !.useTreeMode = FALSE])
    /\ [][Redirection]_vars

\* a tree-mode emitter that has queued a batch, a generated punctuation and
\* a second batch, and has sent nothing
C29_Witness ==
    /\ useTreeMode /\ size >= 1
    /\ sent = <<>>
    /\ Len(output_queue) >= 3
    /\ ~output_queue[1].msg.isPunctuation
    /\ \E p \in DOMAIN output_queue : output_queue[p].msg.isPunctuation
    /\ ~output_queue[Len(output_queue)].msg.isPunctuation
    /\ \E d \in Dests : delivered[d] > 0 /\ last_sent_wms[d] > 0

(***************************************************************************)
(* C30: punctuations are originated only in DEFAULT mode.  In the          *)
(* DETERMINISTIC and PROBABILISTIC execution modes the emitter never       *)
(* generates a punctuation of its own, whatever the number of inputs       *)
(* received and the time elapsed: the only punctuations it sends are those *)
(* requested through propagate_punctuation, one per destination and        *)
(* request, with the watermark of the request.                             *)
(***************************************************************************)
PunctuationsIn(log) == {p \in DOMAIN log : log[p].msg.isPunctuation}

\* the positions of Log' written by the step
Written == (Len(Log) + 1) .. Len(Log')

NoOwnPunctuation ==
    execution_mode # "DEFAULT" =>
      IF n_punct' = n_punct
      THEN PunctuationsIn(Log') = PunctuationsIn(Log)
      ELSE /\ n_punct' = n_punct + 1
           /\ \A d \in Dests :
                \E p \in Written \cap PunctuationsIn(Log') :
                  /\ Log'[p].dest = d
                  /\ getWatermark(Log'[p].msg) = in_wm'
                  /\ \A q \in Written \cap PunctuationsIn(Log') :
                       Log'[q].dest = d => q = p

C30_PunctuationsOnlyInDefault ==
    /\ [](execution_mode # "DEFAULT" =>
             Cardinality(PunctuationsIn(Log)) = n_punct * num_dests)
    /\ [][NoOwnPunctuation]_vars

\* the point where DEFAULT mode generates a punctuation has been passed in
\* another mode: the sample is over, the inputs received are a multiple of
\* the amount, one destination got nothing, and no punctuation was sent
C30_Witness ==
    /\ execution_mode \in {"DETERMINISTIC", "PROBABILISTIC"}
    /\ received_inputs = DEFAULT_WM_AMOUNT
    /\ since_punct >= DEFAULT_WM_INTERVAL_USEC
    /\ \E d \in Dests : Channel(d) = <<>>
    /\ Len(Log) > 0
    /\ PunctuationsIn(Log) = {}

(***************************************************************************)
(* C31: cadence and frame of the punctuation check.  The check is          *)
(* evaluated only on an input whose ordinal (received_inputs) is a         *)
(* multiple of DEFAULT_WM_AMOUNT; when it is evaluated and the time since  *)
(* the last punctuation is below DEFAULT_WM_INTERVAL_USEC, nothing is sent *)
(* and the delivery counters, the batch buffers, the last sent watermarks  *)
(* and the last punctuation time are left unchanged.  What such an input   *)
(* changes is the routing of its own tuple, at the destination of its key. *)
(***************************************************************************)
\* an input on which the check is not evaluated, or is evaluated too early
NoGeneration ==
    /\ InputReceived
    /\ \/ received_inputs' % DEFAULT_WM_AMOUNT # 0
       \/ since_punct < DEFAULT_WM_INTERVAL_USEC

RoutedTo == dest_of(emitted'[Len(emitted')].tuple)

CheckFrame ==
    NoGeneration =>
      /\ since_punct' = since_punct
      /\ PunctuationsIn(Log') = PunctuationsIn(Log)
      /\ Len(Log') <= Len(Log) + 1
      /\ \A d \in Dests \ {RoutedTo} :
           /\ delivered'[d] = delivered[d]
           /\ batches_output'[d] = batches_output[d]
           /\ last_sent_wms'[d] = last_sent_wms[d]
           /\ NewPayloads(d) = {}
      /\ delivered'[RoutedTo] \in {delivered[RoutedTo], delivered[RoutedTo] + 1}
      /\ delivered'[RoutedTo] = delivered[RoutedTo] + Len(NewLog)

\* applied to the emitter state at the check itself
CheckCadence ==
    \A wm \in Watermarks :
      LET e1 == count_input(Self)
      IN /\ e1.received_inputs % DEFAULT_WM_AMOUNT # 0 =>
              check_punctuation(e1, wm) = e1
         /\ since_punct < DEFAULT_WM_INTERVAL_USEC =>
              generate_punctuation(e1, wm) = e1

C31_CheckCadenceAndFrame == []CheckCadence /\ [][CheckFrame]_vars

\* DEFAULT mode, the check evaluated on the second input with the sample not
\* over: a destination that got nothing is still without a punctuation
C31_Witness ==
    /\ execution_mode = "DEFAULT"
    /\ received_inputs = DEFAULT_WM_AMOUNT
    /\ since_punct = 0 /\ n_punct = 0
    /\ PunctuationsIn(Log) = {}
    /\ \E d \in Dests : Channel(d) = <<>> /\ delivered[d] = 0
    /\ \E d \in Dests : delivered[d] > 0

(***************************************************************************)
(* C32: CB implies zero lateness.  After any sequence of calls of the      *)
(* FFAT_AggregatorGPU_Builder that does not end the process, a builder     *)
(* whose window type is CB has lateness 0, and no count-based operator is  *)
(* built with a lateness other than 0.                                     *)
(***************************************************************************)
Alive(b) == b.pc \in {"open", "built"}

C32_CBImpliesZeroLateness ==
    (builder # NotBuilt /\ IsFFAT(builder) /\ Alive(builder)) =>
        /\ builder.winType = "CB" => builder.lateness = 0
        /\ (builder.pc = "built" /\ builder.op.winType = "CB") =>
               builder.op.lateness = 0

\* a count-based operator built by a builder that had been time-based:
\* withTBWindows (the quantum is set), two more calls, the last window
\* configuration being withCBWindows, then build()
C32_Witness ==
    /\ builder # NotBuilt /\ IsFFAT(builder)
    /\ builder.pc = "built" /\ builder.n_calls = 3
    /\ builder.quantum >= 1
    /\ builder.op.winType = "CB" /\ builder.op.win_len >= 1
    /\ builder.op.lateness = 0

(***************************************************************************)
(* C33: withKeyBy preserves the configuration.  The builder returned by    *)
(* withKeyBy carries every option set before the call unchanged (name and  *)
(* parallelism for the Map, Filter and Reduce builders; also output batch  *)
(* size, window length, slide, quantum, lateness and window type for the   *)
(* FFAT builder), so the operator built is the same whether withKeyBy is   *)
(* called before or after another option.                                  *)
(***************************************************************************)
Options(b) ==
    IF IsFFAT(b)
    THEN <<b.name, b.parallelism, b.outputBatchSize, b.win_len, b.slide_len,
           b.quantum, b.lateness, b.winType>>
    ELSE <<b.name, b.parallelism>>

KeyByKeepsOptions ==
    Calling("withKeyBy") =>
        /\ builder'.pc = "open"
        /\ builder'.kind = builder.kind
        /\ Options(builder') = Options(builder)

\* the option calls a program can make on the builder b
OptionCalls(b) ==
    {[method |-> "withName", args |-> <<n>>] : n \in {"op"}}
    \cup {[method |-> "withParallelism", args |-> <<p>>] : p \in 0 .. MaxPar}
    \cup (IF IsFFAT(b)
          THEN {[method |-> "withOutputBatchSize", args |-> <<x>>] : x \in dist_b}
               \cup {[method |-> "withCBWindows", args |-> <<w, x>>] :
                        w \in 0 .. MaxWinLen, x \in 0 .. MaxSlide}
               \cup {[method |-> "withTBWindows", args |-> <<w, x, q>>] :
                        w \in 0 .. MaxWinLen, x \in 0 .. MaxSlide,
                        q \in 0 .. MaxQuantum}
               \cup {[method |-> "withLateness", args |-> <<l>>] :
                        l \in 0 .. MaxLateness}
          ELSE {})

Option(b, c, outcome) ==
    CASE c.method = "withName" -> withName(b, c.args[1])
      [] c.method = "withParallelism" -> withParallelism(b, c.args[1])
      [] c.method = "withOutputBatchSize" -> withOutputBatchSize(b, c.args[1])
      [] c.method = "withCBWindows" -> withCBWindows(b, c.args[1], c.args[2])
      [] c.method = "withTBWindows" ->
            withTBWindows(b, c.args[1], c.args[2], c.args[3], outcome)
      [] c.method = "withLateness" -> withLateness(b, c.args[1])

\* the configuration and the operator that a program ends with
Outcome(b) == IF b.pc = "open" THEN <<"built", Options(b), build(b).op>>
              ELSE <<b.pc, b.cerr>>

KeyByCommutes ==
    (builder # NotBuilt /\ builder.pc = "open") =>
        \A c \in OptionCalls(builder), outcome \in UndefinedOutcomes :
            LET after == Option(builder, c, outcome)
                before == Option(withKeyBy(builder), c, outcome)
            IN IF after.pc = "open"
               THEN /\ before.pc = "open"
                    /\ withKeyBy(after) = before
                    /\ build(withKeyBy(after)).op = build(before).op
               ELSE Outcome(before) = Outcome(after)

C33_KeyByPreservesConfiguration ==
    []KeyByCommutes /\ [][KeyByKeepsOptions]_allvars

\* withKeyBy as the third call of an FFAT builder, after withParallelism(2)
\* and withTBWindows: the new builder has both
C33_Witness ==
    /\ builder # NotBuilt /\ IsFFAT(builder)
    /\ builder.pc = "open" /\ builder.n_calls = 3
    /\ builder.last.method = "withKeyBy"
    /\ builder.isKeyBySet
    /\ builder.parallelism = 2
    /\ builder.winType = "TB" /\ builder.win_len >= 1 /\ builder.quantum >= 1

(***************************************************************************)
(* The emitter objects of the replicas of a Parallel_Windows.  The heap is *)
(* a sequence of objects and an address is an index into it (0 is the null *)
(* pointer).  An emitter object holds its vectors by value and points to   *)
(* its recycling queue and to the open batches; what a replica thread      *)
(* reads or writes when it calls a method of its emitter is the emitter    *)
(* object, the queue it points to and the batches it points to.            *)
(***************************************************************************)
new(h, obj) == Append(h, obj)

NewAt(h) == Len(h) + 1

MPMC_Ptr_Queue == [class |-> "MPMC_Ptr_Queue", touched |-> {}]

Batch_CPU_t == [class |-> "Batch_CPU_t", getSize |-> 0, touched |-> {}]

Single_t == [class |-> "Single_t", touched |-> {}]

\* KeyBy_Emitter(_key_extr, _num_dests, _execution_mode, _size): the emitter
\* is the last object of the heap returned, its queue the one before
KeyBy_Emitter(h, _size) ==
    LET h1 == new(h, MPMC_Ptr_Queue)
    IN new(h1, [class |-> "KeyBy_Emitter",
                size |-> _size,
                useTreeMode |-> FALSE,
                output_queue |-> << >>,
                batches_output |-> [d \in Dests |-> 0],
                queue |-> Len(h1),
                delivered |-> [d \in Dests |-> 0],
                received_inputs |-> 0,
                last_sent_wms |-> [d \in Dests |-> 0],
                touched |-> {}])

\* Mutant: the copy constructor copies the pointer to the recycling queue.
KeyBy_Emitter_copy_shared_queue(h, _other) ==
    LET h1 == new(h, MPMC_Ptr_Queue)
    IN new(h1, [class |-> "KeyBy_Emitter",
                size |-> h[_other].size,
                useTreeMode |-> h[_other].useTreeMode,
                output_queue |-> << >>,
                batches_output |-> [d \in Dests |-> 0],
                queue |-> h[_other].queue,
                delivered |-> h[_other].delivered,
                received_inputs |-> h[_other].received_inputs,
                last_sent_wms |-> h[_other].last_sent_wms,
                touched |-> {}])

\* KeyBy_Emitter(const KeyBy_Emitter &_other)
KeyBy_Emitter_copy(h, _other) ==
    LET h1 == new(h, MPMC_Ptr_Queue)
    IN new(h1, [class |-> "KeyBy_Emitter",
                size |-> h[_other].size,
                useTreeMode |-> h[_other].useTreeMode,
                output_queue |-> << >>,
                batches_output |-> [d \in Dests |-> 0],
                queue |-> Len(h1),
                delivered |-> h[_other].delivered,
                received_inputs |-> h[_other].received_inputs,
                last_sent_wms |-> h[_other].last_sent_wms,
                touched |-> {}])

\* Basic_Emitter *clone() const
clone(h, this) == KeyBy_Emitter_copy(h, this)

\* void setTreeMode(bool _useTreeMode)
setTreeMode(h, this, _useTreeMode) ==
    [h EXCEPT ![this].useTreeMode = _useTreeMode]

\* the operator built and the emitter the MultiPipe created for it
InitOwnership ==
    /\ \E parallelism \in 1 .. MaxPar, _size \in 0 .. MaxBatch :
          LET h == KeyBy_Emitter(<< >>, _size)
          IN emitters = [pc |-> "assembling",
                         heap |-> h,
                         given |-> Len(h),
                         replicas |-> [i \in 0 .. parallelism - 1 |->
                                          [emitter |-> 0]],
                         calls |-> 0]
    /\ graph = NotBuilt /\ pipegraph = NotBuilt /\ win = NotBuilt
    /\ shipper = NotBuilt /\ builder = NotBuilt /\ bench = NotBuilt
    /\ Constructed /\ recording = TRUE
    /\ size = 0 /\ ~useTreeMode /\ execution_mode = "DEFAULT"

\* replicas[i]->setEmitter(e)
Replica_setEmitter(m, i, e) == [m EXCEPT !.replicas[i].emitter = e]

\* Mutant: every replica is given the emitter itself.
RECURSIVE setEmitter_loop_no_clone(_, _, _)
setEmitter_loop_no_clone(m, _emitter, i) ==
    IF i >= Cardinality(DOMAIN m.replicas) THEN m
    ELSE setEmitter_loop_no_clone(Replica_setEmitter(m, i, _emitter),
                                  _emitter, i + 1)

RECURSIVE setEmitter_loop(_, _, _)
setEmitter_loop(m, _emitter, i) ==
    IF i >= Cardinality(DOMAIN m.replicas) THEN m
    ELSE LET h == clone(m.heap, _emitter)
         IN setEmitter_loop(
                Replica_setEmitter([m EXCEPT !.heap = h], i, Len(h)),
                _emitter, i + 1)

\* void Parallel_Windows::setEmitter(Basic_Emitter *_emitter)
Parallel_Windows_setEmitter(m, _emitter) ==
    setEmitter_loop(Replica_setEmitter(m, 0, _emitter), _emitter, 1)

\* what a method called on the emitter at this reads or writes
Footprint(h, this) ==
    ({this, h[this].queue} \cup {h[this].batches_output[d] : d \in Dests})
    \ {0}

RECURSIVE touch_from(_, _, _, _)
touch_from(h, objs, r, a) ==
    IF a > Len(h) THEN h
    ELSE touch_from(IF a \in objs THEN [h EXCEPT ![a].touched = @ \cup {r}]
                    ELSE h,
                    objs, r, a + 1)

touch(h, objs, r) == touch_from(h, objs, r, 1)

\* the message leaves the emitter: sent, or appended to the output queue
heap_send(h, this, msg, d) ==
    IF h[this].useTreeMode
    THEN [h EXCEPT ![this].output_queue = Append(@, <<msg, d>>)]
    ELSE h

\* emit of a tuple whose key hashes to d, as far as the objects go: a
\* Single_t is taken from the allocator and leaves at once; a tuple for a
\* batch goes to the open batch of d, allocated if there is none, and the
\* batch leaves when it is full
heap_emit(h, this, d) ==
    LET h0 == [h EXCEPT ![this].received_inputs = @ + 1]
    IN IF h0[this].size = 0
       THEN [heap_send(new(h0, Single_t), this, NewAt(h0), d) EXCEPT
                ![this].delivered[d] = @ + 1]
       ELSE LET h1 == IF h0[this].batches_output[d] = 0
                      THEN [new(h0, Batch_CPU_t) EXCEPT
                               ![this].batches_output[d] = NewAt(h0)]
                      ELSE h0
                b  == h1[this].batches_output[d]
                h2 == [h1 EXCEPT ![b].getSize = @ + 1]
            IN IF h2[b].getSize = h2[this].size
               THEN [heap_send(h2, this, b, d) EXCEPT
                        ![this].delivered[d] = @ + 1,
                        ![this].batches_output[d] = 0]
               ELSE h2

RECURSIVE heap_flush_loop(_, _, _)
heap_flush_loop(h, this, i) ==
    IF i = num_dests THEN h
    ELSE IF h[this].batches_output[i] # 0
         THEN heap_flush_loop(
                  [heap_send(h, this, h[this].batches_output[i], i) EXCEPT
                      ![this].delivered[i] = @ + 1,
                      ![this].batches_output[i] = 0],
                  this, i + 1)
         ELSE heap_flush_loop(h, this, i + 1)

heap_flush(h, this) ==
    IF h[this].size > 0 THEN heap_flush_loop(h, this, 0) ELSE h

\* the MultiPipe switches the emitter to tree mode before handing it over
SetTreeMode ==
    /\ emitters # NotBuilt /\ emitters.pc = "assembling"
    /\ ~emitters.heap[emitters.given].useTreeMode
    /\ emitters' = [emitters EXCEPT
                       !.heap = setTreeMode(@, emitters.given, TRUE)]
    /\ UNCHANGED <<vars, graph, pipegraph, win, shipper, builder, bench>>

SetEmitter ==
    /\ emitters # NotBuilt /\ emitters.pc = "assembling"
    /\ emitters' = [Parallel_Windows_setEmitter(emitters, emitters.given)
                       EXCEPT !.pc = "running"]
    /\ UNCHANGED <<vars, graph, pipegraph, win, shipper, builder, bench>>

\* the thread of replica r calls emit on its emitter
ReplicaEmit(r) ==
    /\ emitters # NotBuilt /\ emitters.pc = "running"
    /\ emitters.calls < MaxOps
    /\ \E d \in Dests :
          LET this == emitters.replicas[r].emitter
              h == heap_emit(emitters.heap, this, d)
          IN emitters' = [emitters EXCEPT
                 !.heap = touch(h, Footprint(emitters.heap, this)
                                      \cup Footprint(h, this), r),
                 !.calls = @ + 1]
    /\ UNCHANGED <<vars, graph, pipegraph, win, shipper, builder, bench>>

\* the thread of replica r calls flush on its emitter
ReplicaFlush(r) ==
    /\ emitters # NotBuilt /\ emitters.pc = "running"
    /\ emitters.calls < MaxOps
    /\ LET this == emitters.replicas[r].emitter
           h == heap_flush(emitters.heap, this)
       IN emitters' = [emitters EXCEPT
              !.heap = touch(h, Footprint(emitters.heap, this), r),
              !.calls = @ + 1]
    /\ UNCHANGED <<vars, graph, pipegraph, win, shipper, builder, bench>>

NextOwnership ==
    \/ SetTreeMode
    \/ SetEmitter
    \/ \E r \in DOMAIN emitters.replicas : ReplicaEmit(r)
    \/ \E r \in DOMAIN emitters.replicas : ReplicaFlush(r)

SpecOwnership == InitOwnership /\ [][NextOwnership]_allvars

(***************************************************************************)
(* C34: exclusive emitter ownership.  After Parallel_Windows::setEmitter   *)
(* every replica holds its own emitter object (replica 0 the given one,    *)
(* every other replica a distinct clone); a cloned emitter shares neither  *)
(* batch buffers, nor output queue, nor recycling queue with the emitter   *)
(* it was cloned from; no object of an emitter is read or written by the   *)
(* threads of two replicas.                                                *)
(***************************************************************************)
EmitterOf(r) == emitters.replicas[r].emitter

OpenBatches(h, a) == {h[a].batches_output[d] : d \in Dests} \ {0}

\* the output queue is a member of the emitter object: two emitters share it
\* only if they are one object; its entries are the messages it holds
Queued(h, a) == {h[a].output_queue[i][1] : i \in DOMAIN h[a].output_queue}

OwnEmitters ==
    LET h == emitters.heap
    IN /\ EmitterOf(0) = emitters.given
       /\ \A r \in DOMAIN emitters.replicas :
            /\ EmitterOf(r) \in DOMAIN h
            /\ h[EmitterOf(r)].class = "KeyBy_Emitter"
            /\ h[h[EmitterOf(r)].queue].class = "MPMC_Ptr_Queue"
       /\ \A r1, r2 \in DOMAIN emitters.replicas :
            r1 # r2 =>
              /\ EmitterOf(r1) # EmitterOf(r2)
              /\ h[EmitterOf(r1)].queue # h[EmitterOf(r2)].queue
              /\ OpenBatches(h, EmitterOf(r1)) \cap OpenBatches(h, EmitterOf(r2)) = {}
              /\ Queued(h, EmitterOf(r1)) \cap Queued(h, EmitterOf(r2)) = {}
              /\ Footprint(h, EmitterOf(r1)) \cap Footprint(h, EmitterOf(r2)) = {}

NoSharedAccess ==
    \A a \in DOMAIN emitters.heap : Cardinality(emitters.heap[a].touched) <= 1

C34_ExclusiveEmitterOwnership ==
    (emitters # NotBuilt /\ emitters.pc = "running") =>
        OwnEmitters /\ NoSharedAccess

\* two replicas in tree mode with batches of one tuple: each thread has put
\* a batch into the output queue of its own emitter
C34_Witness ==
    /\ emitters # NotBuilt /\ emitters.pc = "running"
    /\ Cardinality(DOMAIN emitters.replicas) = 2
    /\ \A r \in DOMAIN emitters.replicas :
         LET e == emitters.heap[EmitterOf(r)]
         IN /\ e.useTreeMode /\ e.size = 1
            /\ Len(e.output_queue) >= 1
            /\ e.touched = {r}
            /\ emitters.heap[e.queue].touched = {r}

(***************************************************************************)
(* C35: ignored-tuple accounting.  getNumIgnoredTuples() of a              *)
(* Parallel_Windows is the sum over its replicas of their ignored-tuple    *)
(* counters, and for a stream with exactly one late tuple (timestamp older *)
(* than the watermark minus the lateness, of an already fired window) the  *)
(* operator reports 1.                                                     *)
(***************************************************************************)
\* size_t getNumIgnoredTuples() const: count += r->getNumIgnoredTuples()
RECURSIVE getNumIgnoredTuples_loop(_, _)
getNumIgnoredTuples_loop(w, i) ==
    IF i >= w.op.parallelism THEN 0
    ELSE w.rep[i].ignored + getNumIgnoredTuples_loop(w, i + 1)

getNumIgnoredTuples(w) == getNumIgnoredTuples_loop(w, 0)

\* the positions of the stream that hold a late tuple
LateTuples(w) ==
    {p \in DOMAIN w.stream :
        /\ w.stream[p].kind = "tuple"
        /\ w.stream[p].ts < w.stream[p].wm - w.op.lateness}

\* the late tuple falls into a window that replica i had fired before
InFiredWindow(w, i, p) ==
    \E n \in DOMAIN w.rep[i].fired :
        /\ w.rep[i].fired[n].at < w.stream[p].id
        /\ w.rep[i].fired[n].window.start <= w.stream[p].ts
        /\ w.stream[p].ts < w.rep[i].fired[n].window.end

AllConsumed(w) ==
    \A i \in DOMAIN w.op.replicas : w.rep[i].pos = Len(w.stream)

TimeBased(w) == w # NotBuilt /\ w.pc = "running" /\ w.op.winType = "TB"

C35_IgnoredTupleAccounting ==
    (/\ TimeBased(win) /\ AllConsumed(win)
     /\ Cardinality(LateTuples(win)) = 1
     /\ \A p \in LateTuples(win) :
          \E i \in DOMAIN win.op.replicas : InFiredWindow(win, i, p))
    => getNumIgnoredTuples(win) = 1

\* what holds: every replica gets every tuple and counts each late one
C35_CountedByEveryReplica ==
    (TimeBased(win) /\ AllConsumed(win)) =>
        /\ \A i \in DOMAIN win.op.replicas :
              win.rep[i].ignored = Cardinality(LateTuples(win))
        /\ getNumIgnoredTuples(win) =
              win.op.parallelism * Cardinality(LateTuples(win))

\* two replicas, windows of length 2 and slide 1: one late tuple that falls
\* into a fired window of each replica, and a count of 2
C35_CountedTwice ==
    /\ TimeBased(win) /\ AllConsumed(win)
    /\ win.op.parallelism = 2
    /\ Cardinality(LateTuples(win)) = 1
    /\ \A p \in LateTuples(win) :
         \A i \in DOMAIN win.op.replicas : InFiredWindow(win, i, p)
    /\ getNumIgnoredTuples(win) = 2

(***************************************************************************)
(* The sequential yahoo benchmark (yahoo_sequential.cpp) and its operators *)
(* (Filter_op.cpp, Join_op.cpp, Aggregate_op.cpp).  The variable bench is  *)
(* the program: pc is the operator in execution, the four vectors are the  *)
(* item_data of the item of the main loop, time_taken, value and           *)
(* event_type are the globals of Filter_op.cpp.  A step is one test of a   *)
(* loop condition with the body or the exit that follows it.               *)
(***************************************************************************)
EXEC_TIME == 10

\* the unsigned counter value wraps; the model wraps it after MaxValue
MaxValue == 63

\* items in a vector of the item handed to an operator
MaxItems == 3

\* std::vector: back, pop_back, push_back
back(v) == v[Len(v)]

pop_back(v) == SubSeq(v, 1, Len(v) - 1)

push_back(v, x) == Append(v, x)

\* back() or pop_back() of an empty vector, a destructor run on destroyed
\* members: undefined behaviour, the program has no defined state afterwards
Undefined(b, what) == [b EXCEPT !.pc = "undefined", !.ub = what]

\* the statement of main that follows the call of an operator
AfterCall(op) ==
    CASE op = "Filter_op" -> "Join_op"
      [] op = "Join_op" -> "Aggregate_op"
      [] op = "Aggregate_op" -> "Sink_op"
      [] op = "Sink_op" -> "scope_end"

\* the vectors of the item
Vectors(b) ==
    [source_to_filter |-> b.source_to_filter,
     filter_to_join |-> b.filter_to_join,
     join_to_aggregate |-> b.join_to_aggregate,
     aggregate_to_sink |-> b.aggregate_to_sink]

\* an operator returns to main; entry keeps the vectors as the next operator
\* is called with them
Returns(b) == [b EXCEPT !.pc = AfterCall(b.pc), !.entry = Vectors(b)]

Filter_op(b) ==
    IF ~ (b.time_taken <= EXEC_TIME \/ Len(b.source_to_filter) > 0)
    THEN Returns(b)
    ELSE IF b.source_to_filter = <<>>
    THEN Undefined(b, "Filter_op: back() of an empty vector")
    ELSE LET it == back(b.source_to_filter)
             taken == [b EXCEPT !.source_to_filter = pop_back(@)]
         IN  IF it.event_type # b.event_type
             THEN Returns(taken)
             ELSE [taken EXCEPT !.filter_to_join = push_back(@, it)]

\* the joined event of an item whose ad is in campaign_map
joined_event_t(it) == [it EXCEPT !.joined = TRUE, !.joined_ts = it.ts]

Join_op(b) ==
    IF ~ (b.time_taken <= EXEC_TIME \/ Len(b.filter_to_join) > 0)
    THEN Returns(b)
    ELSE IF b.filter_to_join = <<>>
    THEN Undefined(b, "Join_op: back() of an empty vector")
    ELSE LET it == back(b.filter_to_join)
             taken == [b EXCEPT !.filter_to_join = pop_back(@)]
         IN  IF ~ it.ad_known
             THEN taken
             ELSE [taken EXCEPT
                     !.filter_to_join = push_back(@, joined_event_t(it))]

\* Mutant: lastUpdate is the timestamp of the last event.
aggregateFunctionINC_overwrite(event, result) ==
    [count |-> result.count + 1, lastUpdate |-> event.ts]

aggregateFunctionINC(event, result) ==
    [count |-> result.count + 1,
     lastUpdate |-> IF event.ts > result.lastUpdate
                    THEN event.ts ELSE result.lastUpdate]

\* aggregateFunctionINC(it.joined_event, it.result)
aggregated(it) ==
    LET result == aggregateFunctionINC([ts |-> it.joined_ts],
                      [count |-> it.count, lastUpdate |-> it.lastUpdate])
    IN  [it EXCEPT !.count = result.count, !.lastUpdate = result.lastUpdate]

Aggregate_op(b) ==
    IF ~ (b.time_taken <= EXEC_TIME \/ Len(b.join_to_aggregate) > 0)
    THEN Returns(b)
    ELSE IF b.join_to_aggregate = <<>>
    THEN Undefined(b, "Aggregate_op: back() of an empty vector")
    ELSE IF b.filter_to_join = <<>>
    THEN Undefined(b, "Aggregate_op: pop_back() of an empty vector")
    ELSE LET it == back(b.join_to_aggregate)
         IN  [b EXCEPT !.filter_to_join = pop_back(@),
                       !.aggregate_to_sink = push_back(@, aggregated(it))]

\* item_data::~item_data
destroy_item_data(b) ==
    [b EXCEPT !.source_to_filter = <<>>, !.filter_to_join = <<>>,
              !.join_to_aggregate = <<>>, !.aggregate_to_sink = <<>>,
              !.destroyed = @ + 1]

Sink_op(b) ==
    IF ~ (b.time_taken <= EXEC_TIME \/ Len(b.aggregate_to_sink) > 0)
    THEN Returns(destroy_item_data(b))
    ELSE LET timed == [b EXCEPT !.time_taken = b.now]
         IN  IF b.aggregate_to_sink = <<>>
             THEN Undefined(timed, "Sink::op: pop_back() of an empty vector")
             ELSE [timed EXCEPT !.aggregate_to_sink = pop_back(@)]

\* Source::op after its loop
Source_return(b) ==
    IF b.batch_size = 0
    THEN [b EXCEPT !.pc = "break"]
    ELSE [b EXCEPT !.pc = "Filter_op", !.entry = Vectors(b)]

\* Source::op: one test of the loop condition.  The loop writes no volatile
\* or atomic object and does no input or output, so a build may assume that
\* it ends and leave it out (build = "loop_removed").
Source_op(b) ==
    IF b.time_taken <= EXEC_TIME /\ b.build = "loop_kept"
    THEN [b EXCEPT !.event = [ad_type |-> (b.value % 100000) % 5,
                              event_type |-> (b.value % 100000) % 3],
                   !.value = (@ + 1) % (MaxValue + 1),
                   !.index = (b.value + 1) % (MaxValue + 1)]
    ELSE Source_return(b)

\* spb::Item item of an iteration of the loop of main
Item(b) ==
    [b EXCEPT !.source_to_filter = <<>>, !.filter_to_join = <<>>,
              !.join_to_aggregate = <<>>, !.aggregate_to_sink = <<>>,
              !.destroyed = 0, !.event = [ad_type |-> 0, event_type |-> 0],
              !.index = 0]

\* the end of the body of the loop of main: the item goes out of scope and
\* ~item_data runs a second time on the members Sink::op has destroyed; the
\* second run frees what is freed already (the program is aborted) or finds
\* nothing to free (the loop goes on)
scope_end(b) ==
    LET again == [b EXCEPT !.destroyed = @ + 1]
    IN  {Undefined(again, "~item_data() of destroyed item data"),
         [Item(again) EXCEPT !.pc = "Source_op", !.destroyed = 2,
                             !.entry = Vectors(Item(again))]}

\* an item of a vector: its event, its joined event and its result
Event(id, type, known, joined, count) ==
    [id |-> id, event_type |-> type, ad_known |-> known, ts |-> id,
     joined |-> joined, joined_ts |-> IF joined THEN id ELSE 0,
     count |-> count, lastUpdate |-> IF count > 0 THEN id ELSE 0]

\* the vectors of at most MaxItems items an operator can be called with
Contents(first, Types, Knowns, joined, count) ==
    UNION {{[i \in 1 .. n |->
                Event(first + i, f[i][1], f[i][2], joined, count)] :
            f \in [1 .. n -> Types \X Knowns]} : n \in 0 .. MaxItems}

\* the globals of Filter_op.cpp and the item of main, before Source::op
Globals(binary, batch_size, now) ==
    [pc |-> "Source_op", build |-> binary, batch_size |-> batch_size,
     now |-> now, time_taken |-> 0, value |-> 0, event_type |-> 0,
     event |-> [ad_type |-> 0, event_type |-> 0], index |-> 0,
     source_to_filter |-> <<>>, filter_to_join |-> <<>>,
     join_to_aggregate |-> <<>>, aggregate_to_sink |-> <<>>,
     destroyed |-> 0, ub |-> "",
     entry |-> [source_to_filter |-> <<>>, filter_to_join |-> <<>>,
                join_to_aggregate |-> <<>>, aggregate_to_sink |-> <<>>]]

\* seconds on the clock at the call of Sink::op (initial_time is the epoch
\* of the clock): not above EXEC_TIME, or above it
Clock == {0, EXEC_TIME + 1}

\* no WindFlow object is built by the benchmark
NoWindFlow ==
    /\ graph = NotBuilt /\ pipegraph = NotBuilt /\ win = NotBuilt
    /\ shipper = NotBuilt /\ builder = NotBuilt /\ emitters = NotBuilt
    /\ Constructed /\ recording = TRUE
    /\ size = 0 /\ ~useTreeMode /\ execution_mode = "DEFAULT"

\* main is entered: batch_size is what the constructor of Batch leaves
InitYahoo ==
    /\ \E binary \in {"loop_kept", "loop_removed"}, batch_size \in 0 .. 1,
          now \in Clock :
          bench = Globals(binary, batch_size, now)
    /\ NoWindFlow

\* an operator of the loop of main is called by a program that has filled
\* the vectors of the item; Source::op is called with the item of main
InitOperators ==
    /\ \/ \E binary \in {"loop_kept", "loop_removed"}, batch_size \in 0 .. 1,
             now \in Clock :
             bench = Globals(binary, batch_size, now)
       \/ \E op \in {"Filter_op", "Join_op", "Aggregate_op", "Sink_op"},
             time_taken \in Clock, now \in Clock,
             s2f \in Contents(0, 0 .. 1, {TRUE}, FALSE, 0),
             f2j \in Contents(10, {0}, BOOLEAN, FALSE, 0),
             j2a \in Contents(20, {0}, {TRUE}, TRUE, 0),
             a2s \in Contents(30, {0}, {TRUE}, TRUE, 1) :
             bench = [Globals("loop_kept", 0, now) EXCEPT
                        !.pc = op, !.time_taken = time_taken,
                        !.source_to_filter = s2f, !.filter_to_join = f2j,
                        !.join_to_aggregate = j2a, !.aggregate_to_sink = a2s,
                        !.entry = [source_to_filter |-> s2f,
                                   filter_to_join |-> f2j,
                                   join_to_aggregate |-> j2a,
                                   aggregate_to_sink |-> a2s]]
    /\ NoWindFlow

NotBench == <<vars, graph, pipegraph, win, shipper, builder, emitters>>

\* spb::Source::op(item)
SourceOp ==
    /\ bench # NotBuilt /\ bench.pc = "Source_op"
    /\ bench' = Source_op(bench)
    /\ UNCHANGED NotBench

\* spb::Filter::op, spb::Join::op, spb::Aggregate::op, spb::Sink::op: the
\* operator in execution tests its loop condition
OperatorOp ==
    /\ bench # NotBuilt
    /\ bench.pc \in {"Filter_op", "Join_op", "Aggregate_op", "Sink_op"}
    /\ bench' = CASE bench.pc = "Filter_op" -> Filter_op(bench)
                  [] bench.pc = "Join_op" -> Join_op(bench)
                  [] bench.pc = "Aggregate_op" -> Aggregate_op(bench)
                  [] bench.pc = "Sink_op" -> Sink_op(bench)
    /\ UNCHANGED NotBench

\* main: the end of the body of the loop, or break, Metrics::stop(),
\* end_bench() and return
Main ==
    /\ bench # NotBuilt
    /\ \/ bench.pc = "scope_end" /\ bench' \in scope_end(bench)
       \/ bench.pc = "break" /\ bench' = [bench EXCEPT !.pc = "returned"]
    /\ UNCHANGED NotBench

NextYahoo == SourceOp \/ OperatorOp \/ Main

SpecYahoo == InitYahoo /\ [][NextYahoo]_allvars

SpecOperators == InitOperators /\ [][NextYahoo]_allvars

\* the thread of main runs as long as the program has a step to take
SpecYahooFair == SpecYahoo /\ WF_allvars(NextYahoo)

(***************************************************************************)
(* C36  The sequential yahoo benchmark terminates: every operator called   *)
(* in the loop of main returns, Source::op eventually returns false, the   *)
(* loop is left and end_bench runs, so that main returns.                  *)
(***************************************************************************)
C36_Termination == <>(bench.pc = "returned")

\* Source::op is still in its first call after value has gone through all
\* its values: time_taken is 0 as at the start, the loop goes on
C36_SourceSpins ==
    /\ bench.pc = "Source_op" /\ bench.build = "loop_kept"
    /\ bench.time_taken = 0 /\ bench.time_taken <= EXEC_TIME
    /\ bench.value = 0 /\ bench.event.ad_type = MaxValue % 5

(***************************************************************************)
(* C37  Container safety of the yahoo operators: Filter_op, Join_op,       *)
(* Aggregate_op and Sink::op call back() or pop_back() on a vector of the  *)
(* item only when it is not empty, in every state in which their loop      *)
(* condition time_taken <= EXEC_TIME || size > 0 holds, and the item data  *)
(* is not used after Sink::op has destroyed it.                            *)
(***************************************************************************)
C37_ContainerSafety == bench.ub = "" /\ bench.destroyed <= 1

\* Filter_op was called with items to take and with time_taken not above
\* EXEC_TIME: it took them all, its loop condition still held, and it called
\* back() on the empty vector
C37_BackOfEmptyVector ==
    /\ bench.ub = "Filter_op: back() of an empty vector"
    /\ bench.entry.source_to_filter # <<>>
    /\ bench.source_to_filter = <<>>
    /\ bench.time_taken <= EXEC_TIME

(***************************************************************************)
(* C38  Filter semantics: when Filter_op returns, filter_to_join has       *)
(* received exactly the items taken from source_to_filter whose event_type *)
(* is the configured event_type, no item with another event_type has been  *)
(* forwarded, and no item of source_to_filter is left unprocessed.         *)
(***************************************************************************)
\* the items of v, from the last to the first
RECURSIVE FromBack(_)
FromBack(v) == IF v = <<>> THEN <<>> ELSE <<back(v)>> \o FromBack(pop_back(v))

Matches(it) == it.event_type = bench.event_type

\* Filter_op returns to main
FilterReturns == bench.pc = "Filter_op" /\ bench'.pc = "Join_op"

\* what Filter_op has forwarded is what matches among the items it was
\* called with, and it has taken them all
Filtered ==
    /\ bench'.source_to_filter = <<>>
    /\ bench'.filter_to_join =
           bench.entry.filter_to_join
               \o SelectSeq(FromBack(bench.entry.source_to_filter), Matches)

C38_FilterSemantics == [][FilterReturns => Filtered]_allvars

\* only matching items are forwarded, in every step of Filter_op
OnlyMatchingForwarded ==
    bench.pc = "Filter_op" /\ bench'.pc # "undefined" =>
        \/ bench'.filter_to_join = bench.filter_to_join
        \/ /\ Matches(back(bench.source_to_filter))
           /\ bench'.filter_to_join =
                  push_back(bench.filter_to_join, back(bench.source_to_filter))

C38_OnlyMatchingForwarded == [][OnlyMatchingForwarded]_allvars

\* Filter_op has returned after it had forwarded an item, and an item of
\* source_to_filter is left
C38_ItemsLeft ==
    /\ bench.pc = "Join_op"
    /\ bench.source_to_filter # <<>>
    /\ \E i \in DOMAIN bench.filter_to_join :
          bench.filter_to_join[i].id \in 1 .. MaxItems

(***************************************************************************)
(* C39  Stage-to-stage flow: Join takes items from filter_to_join and puts *)
(* the joined items into join_to_aggregate, Aggregate takes items from     *)
(* join_to_aggregate and puts them into aggregate_to_sink; a consumed item *)
(* is removed from the vector it was read from, and every other vector is  *)
(* left unchanged.                                                         *)
(***************************************************************************)
JoinFlow ==
    bench.pc = "Join_op" /\ bench'.pc # "undefined" =>
        /\ bench'.source_to_filter = bench.source_to_filter
        /\ bench'.aggregate_to_sink = bench.aggregate_to_sink
        /\ \/ /\ bench'.filter_to_join = bench.filter_to_join
              /\ bench'.join_to_aggregate = bench.join_to_aggregate
           \/ /\ bench.filter_to_join # <<>>
              /\ bench'.filter_to_join = pop_back(bench.filter_to_join)
              /\ bench'.join_to_aggregate \in
                     {bench.join_to_aggregate,
                      push_back(bench.join_to_aggregate,
                                joined_event_t(back(bench.filter_to_join)))}

AggregateFlow ==
    bench.pc = "Aggregate_op" /\ bench'.pc # "undefined" =>
        /\ bench'.source_to_filter = bench.source_to_filter
        /\ bench'.filter_to_join = bench.filter_to_join
        /\ \/ /\ bench'.join_to_aggregate = bench.join_to_aggregate
              /\ bench'.aggregate_to_sink = bench.aggregate_to_sink
           \/ /\ bench.join_to_aggregate # <<>>
              /\ bench'.join_to_aggregate = pop_back(bench.join_to_aggregate)
              /\ bench'.aggregate_to_sink =
                     push_back(bench.aggregate_to_sink,
                               aggregated(back(bench.join_to_aggregate)))

C39_StageFlow == [][JoinFlow /\ AggregateFlow]_allvars

\* Join_op has joined an item and has put it back into filter_to_join;
\* join_to_aggregate is as it was at the call
C39_JoinedItemPutBack ==
    /\ bench.pc = "Join_op"
    /\ bench.filter_to_join # <<>> /\ back(bench.filter_to_join).joined
    /\ bench.join_to_aggregate = bench.entry.join_to_aggregate

\* Aggregate_op has put an item of join_to_aggregate into aggregate_to_sink,
\* has left it in join_to_aggregate and has removed an item of filter_to_join
C39_AggregateTakesFromFilter ==
    /\ bench.pc = "Aggregate_op"
    /\ bench.join_to_aggregate = bench.entry.join_to_aggregate
    /\ Len(bench.filter_to_join) < Len(bench.entry.filter_to_join)
    /\ Len(bench.aggregate_to_sink) > Len(bench.entry.aggregate_to_sink)
    /\ back(bench.aggregate_to_sink).id = back(bench.join_to_aggregate).id

(***************************************************************************)
(* aggregateFunctionINC applied to a result, event after event.  The       *)
(* variable bench is the result, the result it started from and the        *)
(* timestamps of the events applied so far.                                *)
(***************************************************************************)
MaxEvents == 3

\* a result_t, fresh or already in use, before the events
InitAggregate ==
    /\ \E count \in 0 .. 1, lastUpdate \in 0 .. MaxTs :
          bench = [pc |-> "aggregateFunctionINC",
                   initial |-> [count |-> count, lastUpdate |-> lastUpdate],
                   result |-> [count |-> count, lastUpdate |-> lastUpdate],
                   events |-> <<>>]
    /\ NoWindFlow

\* aggregateFunctionINC(event, result)
AggregateINC ==
    /\ bench # NotBuilt /\ bench.pc = "aggregateFunctionINC"
    /\ Len(bench.events) < MaxEvents
    /\ \E ts \in 0 .. MaxTs :
          bench' = [bench EXCEPT
                      !.result = aggregateFunctionINC([ts |-> ts], @),
                      !.events = Append(@, ts)]
    /\ UNCHANGED NotBench

SpecAggregate == InitAggregate /\ [][AggregateINC]_allvars

(***************************************************************************)
(* C40  Each call of aggregateFunctionINC increments result.count by       *)
(* exactly 1 and sets result.lastUpdate to max(result.lastUpdate,          *)
(* event.ts); hence after any sequence of events count is the number of    *)
(* events applied, lastUpdate never decreases and is the maximum timestamp *)
(* seen, independently of the order of the events.                         *)
(***************************************************************************)
\* one call: the event is the last of events'
EachCall ==
    bench'.events # bench.events =>
        /\ bench'.result.count = bench.result.count + 1
        /\ bench'.result.lastUpdate =
               Max(bench.result.lastUpdate, back(bench'.events))
        /\ bench'.result.lastUpdate >= bench.result.lastUpdate

\* the events in another order
Orders(events) ==
    {[i \in DOMAIN events |-> events[p[i]]] :
        p \in {q \in [DOMAIN events -> DOMAIN events] :
                 \A i, j \in DOMAIN events : q[i] = q[j] => i = j}}

\* the result of the events applied one after the other
RECURSIVE AppliedTo(_, _)
AppliedTo(result, events) ==
    IF events = <<>> THEN result
    ELSE aggregateFunctionINC([ts |-> back(events)],
                              AppliedTo(result, pop_back(events)))

AfterEvents ==
    /\ bench.result.count = bench.initial.count + Len(bench.events)
    /\ bench.result.lastUpdate >= bench.initial.lastUpdate
    /\ \A i \in DOMAIN bench.events :
          bench.result.lastUpdate >= bench.events[i]
    /\ \/ bench.result.lastUpdate = bench.initial.lastUpdate
       \/ \E i \in DOMAIN bench.events :
             bench.result.lastUpdate = bench.events[i]
    /\ \A other \in Orders(bench.events) :
          AppliedTo(bench.initial, other) = bench.result

C40_AggregateFunction == []AfterEvents /\ [][EachCall]_allvars

\* a fresh result after MaxEvents events whose latest is neither the first
\* nor the last applied
C40_Witness ==
    /\ bench.initial = [count |-> 0, lastUpdate |-> 0]
    /\ Len(bench.events) = MaxEvents
    /\ bench.result.count = MaxEvents
    /\ bench.result.lastUpdate > bench.events[1]
    /\ bench.result.lastUpdate > back(bench.events)
    /\ bench.events[1] # back(bench.events)

====
